---- MODULE Spec2Model ----
(***************************************************************************)
(* Model of the linuxdo-checkin worker: src/main.py (job partitioning,     *)
(* main pass, rate-limit backoff, retry pass, result file) and             *)
(* src/reply_engine.py (topic selection, reply generation, posting).       *)
(*                                                                         *)
(* Encoding of Python values:                                              *)
(*   - a username or password is a natural number, 0 being the empty       *)
(*     string ""; the label f"account_{i}" is the negative number -i;      *)
(*   - an optional value is a sequence of length 0 (None) or 1;            *)
(*   - a reply text is a natural number: 0 is the string "SKIP",           *)
(*     1..PoolSize are the phrases of REPLY_POOL, larger numbers are       *)
(*     other strings; NoText (-1) is None;                                 *)
(*   - an exception message is a sequence of one-character strings.        *)
(***************************************************************************)
EXTENDS Integers, Sequences, FiniteSets, TLC

VARIABLES
    \* ---- configuration and clock
    all_accounts,        \* get_accounts(): the roster
    JOB_INDEX,           \* os.environ JOB_INDEX of the worker
    JOB_TOTAL,           \* os.environ JOB_TOTAL
    BROWSE_ENABLED,
    REPLY_ENABLED,
    today,               \* index into Dates: the calendar date of the clock
    \* ---- fan-out of worker start-ups (lines 845-863 of main.py)
    launches,            \* log of start-ups: what each computed
    \* ---- rate-limit handler on its own (lines 905-918 of main.py)
    bk_pc,
    bk_suggested,
    bk_error_msg,
    bk_slept,
    \* ---- select_topic on its own (lines 271-295 of reply_engine.py)
    sel_pc,
    sel_cached,          \* _cached_candidates: None or a list
    sel_exclude,         \* exclude_ids: None or a set
    sel_result,          \* what the call returned or raised
    \* ---- the schedule predicates on their own (reply_engine.py 155-194, main.py 75-104)
    sc_username,         \* the account asked about
    sc_prev,             \* the call before the last one, if any
    sc_last,             \* the last call of a schedule predicate, if any
    \* ---- the scheduled runs of one account (cron of main.py line 2)
    cr_now,              \* the hour of the next scheduled run
    cr_replies,          \* the hours at which the account posted a reply
    \* ---- the forum as one reply phase meets it (reply_engine.py 298-349)
    fo_participates,     \* ids of the topics the account already takes part in
    \* ---- one call of _fetch_topic_candidates (reply_engine.py 197-268)
    ft_topics,           \* topic_list.topics of /latest.json
    ft_result,           \* the list returned, once the call is over
    \* ---- one call of a function wrapped by retry_decorator (main.py 24-52)
    rd_pc,
    rd_params,           \* retries, base_delay, backoff_factor, max_delay
    rd_attempt,
    rd_log,              \* invocations of the function and sleeps, in order
    rd_result,           \* what the wrapper returned
    \* ---- the worker (__main__ of main.py)
    pc,
    accounts,
    i,
    success_list,
    fail_list,
    replied_accounts,
    rate_limited_queue,
    used_topics,
    used_phrases,
    slept,               \* the last time.sleep of the worker loop
    backoffs,            \* number of rate-limit backoff sleeps so far
    attempts,            \* per username: LinuxDoBrowser(...) / browser.run() attempts
    results_file,
    \* ---- the worker processes of one fan-out, each with its own objects
    fan_workers,
    \* ---- the LinuxDoBrowser instance of the current attempt
    phase,
    username,
    login_success,
    reply_result,
    stored_csrf,         \* browser._csrf_token
    bookmark_today,      \* what should_read_bookmarks_today returned, during the browse phase
    exc,                 \* the exception leaving run(), if any
    \* ---- locals of execute_reply
    csrf_token,
    fresh_csrf,          \* what the fetch of /session/csrf gave, once made (0: nothing)
    cached_candidates,
    tried_ids,
    attempt,
    candidate,           \* what select_topic returned last
    topic,
    reply_text,
    is_ai,
    post_call,
    reply_today,         \* what should_reply_today(username) returned, once called
    \* ---- the finally block of run()
    released             \* the release calls made

configVars == <<all_accounts, JOB_INDEX, JOB_TOTAL, BROWSE_ENABLED, REPLY_ENABLED, today>>
backoffVars == <<bk_pc, bk_suggested, bk_error_msg, bk_slept>>
selectVars == <<sel_pc, sel_cached, sel_exclude, sel_result>>
scheduleVars == <<sc_username, sc_prev, sc_last, cr_now, cr_replies>>
forumVars == <<fo_participates>>
fetchVars == <<ft_topics, ft_result>>
retryVars == <<rd_pc, rd_params, rd_attempt, rd_log, rd_result>>
sideVars == <<fetchVars, retryVars, fan_workers>>
loopVars == <<pc, accounts, i, success_list, fail_list, replied_accounts,
              rate_limited_queue, slept, backoffs, attempts, results_file>>
sharedVars == <<used_topics, used_phrases>>
browserVars == <<phase, username, login_success, reply_result, stored_csrf, bookmark_today, exc>>
replyVars == <<csrf_token, fresh_csrf, cached_candidates, tried_ids, attempt, candidate, topic,
               reply_text, is_ai, post_call, reply_today>>
workerVars == <<loopVars, sharedVars, browserVars, replyVars, released>>
vars == <<configVars, launches, backoffVars, selectVars, scheduleVars, forumVars, sideVars, workerVars>>

----------------------------------------------------------------------------
(* Bounds of the model *)

MaxAccounts == 2        \* accounts in the roster of a worker run
MaxRoster == 3          \* accounts in the roster of a fan-out
MaxJobs == 2            \* largest JOB_TOTAL
MaxDays == 1            \* midnights the clock may pass
MaxLaunches == 3        \* worker start-ups logged in one behaviour
MaxTopics == 2          \* topic ids the forum may list
PoolSize == 2           \* phrases of REPLY_POOL kept
MaxCandidates == 4      \* candidates of one reply phase
MaxListed == 2          \* topics of one /latest.json answer
MaxRetries == 4         \* largest retries argument of retry_decorator
MaxSuggestedWait == 3000 \* largest suggested wait of a rate-limit signal
MaxWeeks == 2           \* weeks the clock of the schedule covers
MaxReplies == 3         \* replies of one account logged over the scheduled runs

----------------------------------------------------------------------------
(* Python helpers: str(int), int(str), str.split, substring test *)

DigitChars == <<"0", "1", "2", "3", "4", "5", "6", "7", "8", "9">>

IsDigit(c) == \E d \in 1..10 : DigitChars[d] = c

DigitValue(c) == (CHOOSE d \in 1..10 : DigitChars[d] = c) - 1

RECURSIVE StrNat(_)
StrNat(n) == IF n < 10 THEN <<DigitChars[n + 1]>>
             ELSE StrNat(n \div 10) \o <<DigitChars[(n % 10) + 1]>>

\* str(n) / f"{n}" of an int
Str(n) == IF n < 0 THEN <<"-">> \o StrNat(0 - n) ELSE StrNat(n)

\* f"{n:02d}"-style zero padding to width w, as strftime pads %m and %d
RECURSIVE ZeroPad(_, _)
ZeroPad(s, w) == IF Len(s) >= w THEN s ELSE ZeroPad(<<"0">> \o s, w)

RECURSIVE DigitsValue(_)
DigitsValue(s) == IF s = <<>> THEN 0
                  ELSE DigitsValue(SubSeq(s, 1, Len(s) - 1)) * 10 + DigitValue(s[Len(s)])

AllDigits(s) == s # <<>> /\ \A k \in 1..Len(s) : IsDigit(s[k])

\* int(s): <<n>> when s is an optionally signed decimal literal, <<>> for ValueError
ParseInt(s) ==
    IF AllDigits(s) THEN <<DigitsValue(s)>>
    ELSE IF s # <<>> /\ s[1] \in {"-", "+"} /\ AllDigits(Tail(s))
         THEN <<IF s[1] = "-" THEN 0 - DigitsValue(Tail(s)) ELSE DigitsValue(Tail(s))>>
         ELSE <<>>

\* sub in s
Contains(s, sub) ==
    \E k \in 1..(Len(s) - Len(sub) + 1) : SubSeq(s, k, k + Len(sub) - 1) = sub

\* s.split(sep) for a one-character separator
RECURSIVE SplitFrom(_, _, _)
SplitFrom(s, sep, cur) ==
    IF s = <<>> THEN <<cur>>
    ELSE IF Head(s) = sep THEN <<cur>> \o SplitFrom(Tail(s), sep, <<>>)
         ELSE SplitFrom(Tail(s), sep, Append(cur, Head(s)))

Split(s, sep) == SplitFrom(s, sep, <<>>)

Min(a, b) == IF a < b THEN a ELSE b

Range(s) == {s[k] : k \in 1..Len(s)}

----------------------------------------------------------------------------
(* Job partitioning: main.py lines 845-863 *)

\* Calendar dates the clock passes through, as <<year, month, day>>
Dates == <<<<2026, 12, 31>>, <<2027, 1, 1>>, <<2027, 1, 2>>, <<2027, 1, 3>>>>

\* int(date.today().strftime("%Y%m%d"))
DailySeed(d) ==
    ParseInt(ZeroPad(Str(d[1]), 4) \o ZeroPad(Str(d[2]), 2) \o ZeroPad(Str(d[3]), 2))[1]

\* The generator of the standard library, abstracted: a state is a number
\* below 29, seeding reduces the seed, each draw steps the state.
RngStates == 0..28

SeedRandom(seed) == seed % 29

RngStep(s) == (s * 8 + 3) % 29

\* _randbelow(n) on state s: the value drawn (the state steps to RngStep(s))
RandBelow(s, n) == RngStep(s) % n

Swap(x, a, b) == [x EXCEPT ![a] = x[b], ![b] = x[a]]

\* Random.shuffle(x): for i in reversed(range(1, len(x))): j = randbelow(i + 1);
\* x[i], x[j] = x[j], x[i]   (k is the 1-based index i + 1)
RECURSIVE ShuffleFrom(_, _, _)
ShuffleFrom(x, s, k) ==
    IF k < 2 THEN x
    ELSE ShuffleFrom(Swap(x, k, RandBelow(s, k) + 1), RngStep(s), k - 1)

\* A variant that draws from the process-wide generator instead of a fresh one
ShuffleGeneratorGlobal(daily_seed, global_state) == global_state

\* random.Random(daily_seed): the generator the shuffle draws from
ShuffleGenerator(daily_seed, global_state) == SeedRandom(daily_seed)

Shuffled(roster, daily_seed, global_state) ==
    ShuffleFrom(roster, ShuffleGenerator(daily_seed, global_state), Len(roster))

\* A variant that keeps every index up to the job's own
KeepsIndexUpTo(idx, job_index, job_total) == idx % job_total <= job_index

\* idx % JOB_TOTAL == JOB_INDEX, idx counted from 0
KeepsIndex(idx, job_index, job_total) == idx % job_total = job_index

RECURSIVE SelectIdx(_, _, _, _)
SelectIdx(shuffled, k, job_index, job_total) ==
    IF k > Len(shuffled) THEN <<>>
    ELSE (IF KeepsIndex(k - 1, job_index, job_total) THEN <<shuffled[k]>> ELSE <<>>)
         \o SelectIdx(shuffled, k + 1, job_index, job_total)

\* accounts = [a for idx, a in enumerate(shuffled) if idx % JOB_TOTAL == JOB_INDEX]
PartitionAccounts(shuffled, job_index, job_total) ==
    SelectIdx(shuffled, 1, job_index, job_total)

\* Lines 857-862 together: the accounts a worker assigns itself
StartupAccounts(roster, job_index, job_total, date, global_state) ==
    PartitionAccounts(Shuffled(roster, DailySeed(date), global_state), job_index, job_total)

\* An account of the roster: {"username": ..., "password": ...}
Account(u, p) == [username |-> u, password |-> p]

\* Rosters whose accounts all carry credentials, usernames distinct
FullRoster(n) == [k \in 1..n |-> Account(k, 1)]

FullRosters == {FullRoster(n) : n \in 1..MaxAccounts}

\* The rosters split by a fan-out
FanOutRosters == {FullRoster(n) : n \in 1..MaxRoster}

\* Rosters of the worker: complete, or the first account without a username,
\* or the last account without a password
Rosters ==
    FullRosters \cup
    {[FullRoster(n) EXCEPT ![1] = Account(0, 1)] : n \in 1..MaxAccounts} \cup
    {[FullRoster(n) EXCEPT ![n] = Account(n, 0)] : n \in 1..MaxAccounts}

----------------------------------------------------------------------------
(* Initial values of the parts a specification leaves alone *)

BackoffIdle ==
    /\ bk_pc = "off"
    /\ bk_suggested = 0
    /\ bk_error_msg = <<>>
    /\ bk_slept = <<>>

SelectIdle ==
    /\ sel_pc = "off"
    /\ sel_cached = <<>>
    /\ sel_exclude = <<>>
    /\ sel_result = <<>>

ForumIdle == fo_participates = {}

FetchIdle ==
    /\ ft_topics = <<>>
    /\ ft_result = <<>>

RetryIdle ==
    /\ rd_pc = "off"
    /\ rd_params = <<>>
    /\ rd_attempt = 0
    /\ rd_log = <<>>
    /\ rd_result = <<>>

FanIdle == fan_workers = <<>>

SideIdle == FetchIdle /\ RetryIdle /\ FanIdle

ScheduleIdle ==
    /\ sc_username = 0
    /\ sc_prev = <<>>
    /\ sc_last = <<>>
    /\ cr_now = 0
    /\ cr_replies = <<>>

BrowserIdle ==
    /\ phase = "none"
    /\ username = 0
    /\ login_success = FALSE
    /\ reply_result = <<>>
    /\ stored_csrf = 0
    /\ bookmark_today = <<>>
    /\ exc = <<>>

ReplyIdle ==
    /\ csrf_token = 0
    /\ fresh_csrf = <<>>
    /\ cached_candidates = <<>>
    /\ tried_ids = {}
    /\ attempt = 0
    /\ candidate = <<>>
    /\ topic = <<>>
    /\ reply_text = 0 - 1   \* None
    /\ is_ai = FALSE
    /\ post_call = <<>>
    /\ reply_today = <<>>
    /\ released = <<>>

WorkerIdle ==
    /\ pc = "off"
    /\ accounts = <<>>
    /\ i = 0
    /\ success_list = <<>>
    /\ fail_list = <<>>
    /\ replied_accounts = <<>>
    /\ rate_limited_queue = <<>>
    /\ used_topics = {}
    /\ used_phrases = {}
    /\ slept = <<>>
    /\ backoffs = 0
    /\ attempts = <<>>
    /\ results_file = <<>>
    /\ BrowserIdle
    /\ ReplyIdle

----------------------------------------------------------------------------
(* The fan-out: every worker process runs lines 845-863 on its own *)

PartitionInit ==
    /\ all_accounts \in FanOutRosters
    /\ JOB_TOTAL \in 1..MaxJobs
    /\ JOB_INDEX = 0
    /\ BROWSE_ENABLED = TRUE
    /\ REPLY_ENABLED = FALSE
    /\ today = 1
    /\ launches = <<>>
    /\ BackoffIdle
    /\ SelectIdle
    /\ ScheduleIdle
    /\ ForumIdle
    /\ SideIdle
    /\ WorkerIdle

\* The calendar date changes
Midnight ==
    /\ today < 1 + MaxDays
    /\ today' = today + 1
    /\ UNCHANGED <<all_accounts, JOB_INDEX, JOB_TOTAL, BROWSE_ENABLED, REPLY_ENABLED>>
    /\ UNCHANGED <<launches, backoffVars, selectVars, scheduleVars, forumVars, sideVars, workerVars>>

\* A worker process with JOB_INDEX = j starts (or is re-run): it reads the date,
\* shuffles the roster and keeps its share.  global_state is the state of the
\* process-wide generator, seeded by the interpreter from system entropy.
Launch(j) ==
    /\ Len(launches) < MaxLaunches
    /\ \E global_state \in RngStates :
        launches' = Append(launches,
            [job_index |-> j,
             daily_seed |-> DailySeed(Dates[today]),
             accounts |-> StartupAccounts(all_accounts, j, JOB_TOTAL, Dates[today], global_state)])
    /\ UNCHANGED <<configVars, backoffVars, selectVars, scheduleVars, forumVars, sideVars, workerVars>>

PartitionNext ==
    \/ Midnight
    \/ \E j \in 0..(JOB_TOTAL - 1) : Launch(j)

SpecPartition == PartitionInit /\ [][PartitionNext]_vars

\* The launches of the log that used seed s, by job index
LaunchesOf(s, j) ==
    {k \in 1..Len(launches) : launches[k].daily_seed = s /\ launches[k].job_index = j}

SeedsSeen == {launches[k].daily_seed : k \in 1..Len(launches)}

\* Seed s has been used by a launch of every job index 0..JOB_TOTAL-1
FanOutComplete(s) == \A j \in 0..(JOB_TOTAL - 1) : LaunchesOf(s, j) # {}

\* One launch per job index, all with seed s
Families(s) ==
    {f \in [0..(JOB_TOTAL - 1) -> 1..Len(launches)] :
        \A j \in 0..(JOB_TOTAL - 1) : f[j] \in LaunchesOf(s, j)}

RECURSIVE SumLen(_, _)
SumLen(f, j) == IF j < 0 THEN 0 ELSE Len(launches[f[j]].accounts) + SumLen(f, j - 1)

\* C5: for a fixed date seed the partitions of job indices 0..JOB_TOTAL-1 are
\* pairwise disjoint, their union is the whole roster (every account in exactly
\* one partition, once), and their sizes differ by at most 1.
C5_PartitionsCoverRoster ==
    \A s \in SeedsSeen : \A f \in Families(s) :
        /\ \A a, b \in 0..(JOB_TOTAL - 1) :
              a # b =>
                /\ Range(launches[f[a]].accounts) \cap Range(launches[f[b]].accounts) = {}
                /\ Len(launches[f[a]].accounts) - Len(launches[f[b]].accounts) \in {0 - 1, 0, 1}
        /\ UNION {Range(launches[f[j]].accounts) : j \in 0..(JOB_TOTAL - 1)} = Range(all_accounts)
        /\ SumLen(f, JOB_TOTAL - 1) = Len(all_accounts)

\* A fan-out of 2 jobs over 3 accounts is complete for some seed, and the
\* shuffle moved the accounts
C5_Witness ==
    /\ JOB_TOTAL = 2
    /\ Len(all_accounts) = 3
    /\ \E s \in SeedsSeen :
        /\ FanOutComplete(s)
        /\ \E k \in LaunchesOf(s, 0) : launches[k].accounts # <<all_accounts[1], all_accounts[3]>>

\* C6: partitioning is idempotent for a fixed date seed, roster, JOB_INDEX and
\* JOB_TOTAL: two invocations return the same accounts in the same order.
C6_PartitionIdempotent ==
    \A a, b \in 1..Len(launches) :
        (launches[a].daily_seed = launches[b].daily_seed
            /\ launches[a].job_index = launches[b].job_index)
        => launches[a].accounts = launches[b].accounts

\* The same job index was launched twice on the same date over 3 accounts,
\* and once more on another date with another result
C6_Witness ==
    /\ Len(all_accounts) = 3
    /\ \E a, b, c \in 1..Len(launches) :
        /\ a # b
        /\ launches[a].job_index = launches[b].job_index
        /\ launches[a].daily_seed = launches[b].daily_seed
        /\ launches[c].job_index = launches[a].job_index
        /\ launches[c].daily_seed # launches[a].daily_seed
        /\ launches[c].accounts # launches[a].accounts

----------------------------------------------------------------------------
(* Rate-limit signal and backoff: main.py lines 324, 512, 905-918 *)

RateLimitWait == 60     \* self._rate_limit_wait = 60
RateLimitWaitDefault == 60 \* getattr(self, '_rate_limit_wait', 60)
DefaultWait == 120      \* wait_secs = 120 when the message has no number
BackoffBuffer == 30     \* wait_secs + 30
BackoffCap == 2100      \* cap at 35min

RateLimitedText == <<"R", "A", "T", "E", "_", "L", "I", "M", "I", "T", "E", "D">>

\* Exception(f"RATE_LIMITED:{getattr(self, '_rate_limit_wait', 60)}")
RateLimitedMsg(wait) == RateLimitedText \o <<":">> \o Str(wait)

\* getattr(self, '_rate_limit_wait', 60): the attribute when login set it
GetRateLimitWait(attr) == IF attr = <<>> THEN RateLimitWaitDefault ELSE attr[1]

\* The message of any other exception
GenericMsg == <<"e", "r", "r", "o", "r">>

\* "RATE_LIMITED" in error_msg
IsRateLimited(error_msg) == Contains(error_msg, RateLimitedText)

\* A variant whose parse always fails
ParsedWaitDefault(error_msg) == DefaultWait

\* try: wait_secs = int(error_msg.split(":")[1])
\* except (IndexError, ValueError): wait_secs = 120
ParsedWait(error_msg) ==
    LET parts == Split(error_msg, ":")
    IN  IF Len(parts) < 2 THEN DefaultWait
        ELSE IF ParseInt(parts[2]) = <<>> THEN DefaultWait
             ELSE ParseInt(parts[2])[1]

\* A variant without the cap
BackoffSleepUncapped(error_msg) == ParsedWait(error_msg) + BackoffBuffer

\* wait_secs = min(wait_secs + 30, 2100); time.sleep(wait_secs)
BackoffSleep(error_msg) == Min(ParsedWait(error_msg) + BackoffBuffer, BackoffCap)

BackoffInit ==
    /\ all_accounts = FullRoster(1)
    /\ JOB_TOTAL = 1
    /\ JOB_INDEX = 0
    /\ BROWSE_ENABLED = TRUE
    /\ REPLY_ENABLED = FALSE
    /\ today = 1
    /\ launches = <<>>
    /\ bk_pc = "run"
    /\ bk_suggested \in 0..MaxSuggestedWait
    /\ bk_error_msg = <<>>
    /\ bk_slept = <<>>
    /\ SelectIdle
    /\ ScheduleIdle
    /\ ForumIdle
    /\ SideIdle
    /\ WorkerIdle

\* run() turns the rate-limit result of login() into an exception that
\* carries the suggested wait
BackoffRaise ==
    /\ bk_pc = "run"
    /\ bk_error_msg' = RateLimitedMsg(bk_suggested)
    /\ bk_pc' = "except"
    /\ UNCHANGED <<bk_suggested, bk_slept, configVars, launches, selectVars, scheduleVars, forumVars, sideVars, workerVars>>

\* The except branch of the main pass: parse the wait, sleep
BackoffHandle ==
    /\ bk_pc = "except"
    /\ IsRateLimited(bk_error_msg)
    /\ bk_slept' = <<BackoffSleep(bk_error_msg)>>
    /\ bk_pc' = "continue"
    /\ UNCHANGED <<bk_suggested, bk_error_msg, configVars, launches, selectVars, scheduleVars, forumVars, sideVars, workerVars>>

BackoffNext == BackoffRaise \/ BackoffHandle

SpecBackoff == BackoffInit /\ [][BackoffNext]_vars

\* C4: on a rate-limit signal with suggested wait s >= 0 the worker sleeps
\* exactly min(s + 30, 2100) seconds: 80 for s = 50, never more than 2100.
C4_BackoffSleepIsCappedSum ==
    bk_slept # <<>> =>
        /\ bk_slept[1] = (IF bk_suggested + 30 < 2100 THEN bk_suggested + 30 ELSE 2100)
        /\ bk_slept[1] <= 2100
        /\ (bk_suggested = 50 => bk_slept[1] = 80)

\* The signal suggested 50 seconds and the worker slept 80
C4_Witness == bk_pc = "continue" /\ bk_suggested = 50 /\ bk_slept = <<80>>

----------------------------------------------------------------------------
(* reply_engine.py: topic selection, text generation, posting *)

SKIP == 0               \* the string "SKIP"
NoText == 0 - 1         \* None returned by generate_semantic_reply
SelectAttempts == 3     \* for attempt in range(3)

\* REPLY_POOL, cut to PoolSize phrases
REPLY_POOL == [k \in 1..PoolSize |-> k]

\* Texts generate_semantic_reply can return besides "SKIP" and None: any
\* string, a pool phrase included; PoolSize + 1 stands for the strings that
\* are not in the pool
GeneratedTexts == 1..(PoolSize + 1)

Topics == 1..MaxTopics

\* {"id": topic_id, "title": title}
Candidate(t) == [id |-> t, title |-> <<"title", t>>]

RECURSIVE SortedSeq(_)
SortedSeq(S) ==
    IF S = {} THEN <<>>
    ELSE LET least == CHOOSE x \in S : \A y \in S : x <= y
         IN  <<Candidate(least)>> \o SortedSeq(S \ {least})

\* What _fetch_topic_candidates can return: the listed topics that pass its
\* filter (none when the fetch fails); their order does not matter to the caller
CandidateLists == {SortedSeq(S) : S \in SUBSET Topics}

\* filtered = [c for c in candidates if c["id"] not in exclude_ids]
Filtered(candidates, exclude_ids) ==
    SelectSeq(candidates, LAMBDA c : c.id \notin exclude_ids)

\* A variant that forgets the exclusion
SelectTopicUnfiltered(candidates, exclude_ids) ==
    IF candidates = <<>> THEN {<<>>}
    ELSE {<<candidates[k]>> : k \in 1..Len(candidates)}

\* select_topic with _cached_candidates: the values it can return, <<>> being
\* None and every element of filtered a possible random.choice
SelectTopic(candidates, exclude_ids) ==
    IF Filtered(candidates, exclude_ids) = <<>> THEN {<<>>}
    ELSE {<<Filtered(candidates, exclude_ids)[k]>> :
             k \in 1..Len(Filtered(candidates, exclude_ids))}

\* A variant that never sees a topic as used
TopicUsedNever(topic_id, used) == FALSE

\* candidate["id"] in used_topics
TopicUsed(topic_id, used) == topic_id \in used

\* A variant that treats the skip signal as ordinary text
IsSkipNever(text) == FALSE

\* reply_text == "SKIP"
IsSkip(text) == text = SKIP

\* A variant that draws from the whole pool whatever was used
AvailablePhrasesWholePool(used) == Range(REPLY_POOL)

\* available_phrases: the unused phrases of the pool, the whole pool when
\* every phrase is used
AvailablePhrases(used) ==
    IF Range(REPLY_POOL) \ used = {} THEN Range(REPLY_POOL) ELSE Range(REPLY_POOL) \ used

\* A variant that forgets to record the topic
UsedTopicsAfterPostSame(used, topic_id) == used

\* used_topics.add(topic_id)
UsedTopicsAfterPost(used, topic_id) == used \cup {topic_id}

----------------------------------------------------------------------------
(* _fetch_topic_candidates: reply_engine.py lines 197-268 *)

AgeLimitDays == 3       \* if age_days > 3
SecondsPerDay == 86400  \* total_seconds() / 86400
PostsLimit == 100       \* topic.get("posts_count", 0) > 100

\* bot_usernames = {a.get("username", "") for a in all_accounts if a.get("username")}
BotUsernames(roster) == {roster[k].username : k \in 1..Len(roster)} \ {0}

\* Usernames a poster can have: "" (0), the roster's first account, a stranger
PosterNames == 0..2

\* Ages of a topic at the time of the call, in seconds: around the limit
TopicAges == {AgeLimitDays * SecondsPerDay + d : d \in {0 - 1, 0, 1}}

\* created_at of a topic: absent or empty, not an ISO date, or a date that
\* lies age seconds back
CreatedAts ==
    [kind : {"missing", "bad"}, age : {AgeLimitDays * SecondsPerDay + 1}]
        \cup [kind : {"iso"}, age : TopicAges]

\* One entry of topic_list.topics.  op is the author of the first post;
\* op_labelled says whether posters holds an entry whose description contains
\* "Original Poster" and whose user_id the users array resolves to op.
TopicJson(topic_id) ==
    [id : {0, topic_id}, title : {<<"title", topic_id>>},
     pinned : BOOLEAN, pinned_globally : BOOLEAN,
     op : PosterNames \ {0}, op_labelled : BOOLEAN,
     last_poster_username : PosterNames,
     created_at : CreatedAts,
     posts_count : {0, PostsLimit, PostsLimit + 1},
     closed : BOOLEAN, archived : BOOLEAN]

\* A topic with nothing against it but, possibly, being closed
PlainTopic(topic_id, closed) ==
    [id |-> topic_id, title |-> <<"title", topic_id>>,
     pinned |-> FALSE, pinned_globally |-> FALSE,
     op |-> 2, op_labelled |-> TRUE, last_poster_username |-> 2,
     created_at |-> [kind |-> "iso", age |-> AgeLimitDays * SecondsPerDay],
     posts_count |-> 0, closed |-> closed, archived |-> FALSE]

\* Answers of /latest.json: any first topic, followed by plain ones
RECURSIVE PlainTails(_, _)
PlainTails(from, to) ==
    IF from > to THEN {<<>>}
    ELSE {<<PlainTopic(from, c)>> \o rest : c \in BOOLEAN, rest \in PlainTails(from + 1, to)}

ListedTopics(longest) ==
    {<<>>} \cup UNION {{<<t>> \o rest : t \in TopicJson(1), rest \in PlainTails(2, n)} :
                      n \in 1..longest}

\* Lines 232-238: the username of the first poster labelled "Original Poster",
\* looked up in the users array; "" when there is none
PosterUsername(item) == IF item.op_labelled THEN item.op ELSE 0

\* Lines 244-254: the age test, skipped when created_at is empty
TooOldOrUnparsed(created_at) ==
    /\ created_at.kind # "missing"
    /\ \/ created_at.kind = "bad"
       \/ created_at.age > AgeLimitDays * SecondsPerDay

\* The body of `for topic in topics` (lines 225-266): does the topic become a
\* candidate
PassesFilter(item, bot_usernames) ==
    /\ ~(item.pinned \/ item.pinned_globally)
    /\ PosterUsername(item) \notin bot_usernames
    /\ item.last_poster_username \notin bot_usernames
    /\ ~TooOldOrUnparsed(item.created_at)
    /\ ~(item.posts_count > PostsLimit)
    /\ ~(item.closed \/ item.archived)
    /\ item.id # 0

RECURSIVE CandidatesFrom(_, _, _)
CandidatesFrom(topics, k, bot_usernames) ==
    IF k > Len(topics) THEN <<>>
    ELSE (IF PassesFilter(topics[k], bot_usernames)
          THEN <<[id |-> topics[k].id, title |-> topics[k].title]>> ELSE <<>>)
         \o CandidatesFrom(topics, k + 1, bot_usernames)

\* _fetch_topic_candidates: [] when the fetch or the parse fails
FetchTopicCandidates(fetched, topics, bot_usernames) ==
    IF fetched THEN CandidatesFrom(topics, 1, bot_usernames) ELSE <<>>

FetchInit ==
    /\ all_accounts = FullRoster(1)
    /\ JOB_TOTAL = 1
    /\ JOB_INDEX = 0
    /\ BROWSE_ENABLED = TRUE
    /\ REPLY_ENABLED = TRUE
    /\ today = 1
    /\ launches = <<>>
    /\ BackoffIdle
    /\ SelectIdle
    /\ ScheduleIdle
    /\ ForumIdle
    /\ ft_topics \in ListedTopics(MaxListed)
    /\ ft_result = <<>>
    /\ RetryIdle
    /\ FanIdle
    /\ WorkerIdle

\* One call of _fetch_topic_candidates
FetchCall ==
    /\ ft_result = <<>>
    /\ \E fetched \in BOOLEAN :
        ft_result' = <<FetchTopicCandidates(fetched, ft_topics, BotUsernames(all_accounts))>>
    /\ UNCHANGED <<ft_topics, retryVars, fan_workers, configVars, launches, backoffVars, selectVars,
                   scheduleVars, forumVars, workerVars>>

FetchNext == FetchCall

SpecFetch == FetchInit /\ [][FetchNext]_vars

----------------------------------------------------------------------------
(* retry_decorator: main.py lines 24-52 *)

DefaultRetries == 3     \* retries=3
DefaultBaseDelay == 3   \* base_delay=3
DefaultFactor == 2      \* backoff_factor=2
DefaultMaxDelay == 30   \* max_delay=30
JitterPercent == 25     \* random.uniform(-0.25, 0.25)

RECURSIVE Pow(_, _)
Pow(b, e) == IF e = 0 THEN 1 ELSE b * Pow(b, e - 1)

\* Arguments of retry_decorator: the defaults, fewer or more retries, a
\* shorter base delay, a cap that the second delay reaches
RetryParams ==
    [retries : 1..MaxRetries, base_delay : {1, DefaultBaseDelay},
     backoff_factor : {DefaultFactor}, max_delay : {5, DefaultMaxDelay}]

\* random.uniform(-0.25, 0.25) in percent: both ends, the middle, two more
JitterPercents == {0 - JitterPercent, 0 - 13, 0, 13, JitterPercent}

\* What one invocation of the wrapped function does: it returns None or a
\* value, or raises an Exception
FuncOutcomes == {"none", "value", "raises"}

\* A variant without the cap
RetryDelayUncapped(params, k) ==
    params.base_delay * Pow(params.backoff_factor, k)

\* delay = min(base_delay * (backoff_factor ** attempt), max_delay), in seconds
RetryDelay(params, k) ==
    Min(params.base_delay * Pow(params.backoff_factor, k), params.max_delay)

\* sleep_s = delay + delay * jitter, in hundredths of a second
SleepHundredths(delay, jitter_percent) == delay * 100 + delay * jitter_percent

\* A variant that sleeps after the last attempt as well
SleepsAfterFailureAlways(params, k) == TRUE

\* if attempt < retries - 1
SleepsAfterFailure(params, k) == k < params.retries - 1

\* A variant that runs the loop once more
LoopContinuesOnceMore(params, k) == k <= params.retries

\* for attempt in range(retries)
LoopContinues(params, k) == k < params.retries

RetryInit ==
    /\ all_accounts = FullRoster(1)
    /\ JOB_TOTAL = 1
    /\ JOB_INDEX = 0
    /\ BROWSE_ENABLED = TRUE
    /\ REPLY_ENABLED = FALSE
    /\ today = 1
    /\ launches = <<>>
    /\ BackoffIdle
    /\ SelectIdle
    /\ ScheduleIdle
    /\ ForumIdle
    /\ FetchIdle
    /\ rd_pc = "loop"
    /\ rd_params \in RetryParams
    /\ rd_attempt = 0
    /\ rd_log = <<>>
    /\ rd_result = <<>>
    /\ FanIdle
    /\ WorkerIdle

\* One iteration of the loop of wrapper (lines 33-47): the function is
\* invoked; its return value is returned, its exception is logged and, unless
\* this was the last attempt, followed by the sleep
RetryAttempt ==
    /\ rd_pc = "loop"
    /\ LoopContinues(rd_params, rd_attempt)
    /\ \E outcome \in FuncOutcomes, jitter \in JitterPercents :
        IF outcome # "raises"
        THEN /\ rd_log' = Append(rd_log, [event |-> "invoke", attempt |-> rd_attempt,
                                          outcome |-> outcome])
             /\ rd_result' = <<outcome>>
             /\ rd_pc' = "returned"
             /\ UNCHANGED rd_attempt
        ELSE /\ rd_log' = Append(rd_log, [event |-> "invoke", attempt |-> rd_attempt,
                                          outcome |-> outcome])
                           \o (IF SleepsAfterFailure(rd_params, rd_attempt)
                               THEN <<[event |-> "sleep", attempt |-> rd_attempt,
                                       outcome |-> SleepHundredths(RetryDelay(rd_params, rd_attempt),
                                                                   jitter)]>>
                               ELSE <<>>)
             /\ rd_attempt' = rd_attempt + 1
             /\ UNCHANGED <<rd_pc, rd_result>>
    /\ UNCHANGED <<rd_params, fetchVars, fan_workers, configVars, launches, backoffVars, selectVars,
                   scheduleVars, forumVars, workerVars>>

\* Line 48: the loop is over without a return; return None
RetryGiveUp ==
    /\ rd_pc = "loop"
    /\ ~LoopContinues(rd_params, rd_attempt)
    /\ rd_result' = <<"none">>
    /\ rd_pc' = "returned"
    /\ UNCHANGED <<rd_params, rd_attempt, rd_log, fetchVars, fan_workers, configVars, launches, backoffVars,
                   selectVars, scheduleVars, forumVars, workerVars>>

RetryNext == RetryAttempt \/ RetryGiveUp

SpecRetry == RetryInit /\ [][RetryNext]_vars

----------------------------------------------------------------------------
(* The workers of one fan-out, each a process of its own: main.py lines
   845-981 run once per job, the reply phase of reply_engine.py 469-588 *)

\* The jobs of the fan-out; worker w runs with JOB_INDEX = w - 1
FanWorkers == {1, 2}

\* A process that has not been launched
WorkerOff ==
    [pc |-> "off", accounts |-> <<>>, i |-> 0, used_topics |-> {}, used_phrases |-> {},
     replied_accounts |-> <<>>]

\* A variant where the sets are one object seen by every worker
SharedAcrossWorkers(workers, w, topics, phrases) ==
    [v \in DOMAIN workers |->
        [workers[v] EXCEPT !.used_topics = topics, !.used_phrases = phrases]]

\* used_topics and used_phrases are names of the __main__ of one process
\* (lines 873-875), handed to its own browsers (893-894): binding or
\* updating them touches the objects of that process only
OwnShared(workers, w, topics, phrases) ==
    [workers EXCEPT ![w].used_topics = topics, ![w].used_phrases = phrases]

\* The selection loop (reply_engine.py 476-502) from iteration k on: the
\* topics it can end with, <<>> when it finds none.  The status check of a
\* candidate answers either way.
RECURSIVE SelectLoop(_, _, _, _)
SelectLoop(candidates, tried, used, k) ==
    IF k >= SelectAttempts THEN {<<>>}
    ELSE UNION {
        IF cand = <<>> THEN {<<>>}
        ELSE IF TopicUsed(cand[1].id, used)
             THEN SelectLoop(candidates, tried \cup {cand[1].id}, used, k + 1)
             ELSE {cand} \cup SelectLoop(candidates, tried \cup {cand[1].id}, used, k + 1)
        : cand \in SelectTopic(candidates, tried)}

FanInit ==
    /\ all_accounts \in FanOutRosters
    /\ JOB_TOTAL = Cardinality(FanWorkers)
    /\ JOB_INDEX = 0
    /\ BROWSE_ENABLED = TRUE
    /\ REPLY_ENABLED = TRUE
    /\ today = 1
    /\ launches = <<>>
    /\ BackoffIdle
    /\ SelectIdle
    /\ ScheduleIdle
    /\ ForumIdle
    /\ FetchIdle
    /\ RetryIdle
    /\ fan_workers = [w \in FanWorkers |-> WorkerOff]
    /\ WorkerIdle

\* Lines 845-875 in the process of worker w: its partition of the shuffled
\* roster, fresh empty sets
FanStart(w) ==
    /\ fan_workers[w].pc = "off"
    /\ \E global_state \in RngStates :
        fan_workers' =
            OwnShared([fan_workers EXCEPT
                          ![w].pc = "run",
                          ![w].i = 1,
                          ![w].accounts = StartupAccounts(all_accounts, w - 1, JOB_TOTAL,
                                                          Dates[today], global_state)],
                      w, {}, {})
    /\ UNCHANGED <<fetchVars, retryVars, configVars, launches, backoffVars, selectVars,
                   scheduleVars, forumVars, workerVars>>

\* Lines 881-927 for the next account of worker w.  Either the account
\* posts nothing (login failure, rate limit, off schedule, no token, no
\* topic, "SKIP", rejected post), or its reply phase selects a topic against
\* the worker's own used_topics, takes the generator's text or a pool
\* phrase unused by this worker, and the confirmed post updates the
\* worker's sets and adds its record.  An account reaches the reply phase
\* in one attempt at most, so the retry pass adds nothing here.
FanAccount(w) ==
    LET me == fan_workers[w]
    IN  /\ me.pc = "run"
        /\ me.i <= Len(me.accounts)
        /\ \/ fan_workers' = [fan_workers EXCEPT ![w].i = @ + 1]
           \/ \E cands \in CandidateLists, gen \in {NoText} \cup GeneratedTexts :
              \E chosen \in SelectLoop(cands, {}, me.used_topics, 0) \ {<<>>} :
              \E text \in (IF gen = NoText THEN AvailablePhrases(me.used_phrases) ELSE {gen}) :
                  /\ ~IsSkip(gen)
                  /\ fan_workers' =
                        OwnShared([fan_workers EXCEPT
                                      ![w].i = @ + 1,
                                      ![w].replied_accounts =
                                          Append(@, [username |-> me.accounts[me.i].username,
                                                     topic_id |-> chosen[1].id,
                                                     topic_title |-> chosen[1].title,
                                                     reply_text |-> text])],
                                  w,
                                  UsedTopicsAfterPost(me.used_topics, chosen[1].id),
                                  me.used_phrases \cup {text})
    /\ UNCHANGED <<fetchVars, retryVars, configVars, launches, backoffVars, selectVars,
                   scheduleVars, forumVars, workerVars>>

\* Lines 960-981: worker w writes its results and exits
FanFinish(w) ==
    /\ fan_workers[w].pc = "run"
    /\ fan_workers[w].i > Len(fan_workers[w].accounts)
    /\ fan_workers' = [fan_workers EXCEPT ![w].pc = "done"]
    /\ UNCHANGED <<fetchVars, retryVars, configVars, launches, backoffVars, selectVars,
                   scheduleVars, forumVars, workerVars>>

FanNext == \E w \in FanWorkers : FanStart(w) \/ FanAccount(w) \/ FanFinish(w)

SpecFanOut == FanInit /\ [][FanNext]_vars

----------------------------------------------------------------------------
(* select_topic called on its own, with any arguments *)

\* Lists of candidates of any order, repeated ids included
RECURSIVE ListsUpTo(_)
ListsUpTo(n) ==
    IF n = 0 THEN {<<>>}
    ELSE ListsUpTo(n - 1) \cup
         {Append(l, Candidate(t)) : l \in {x \in ListsUpTo(n - 1) : Len(x) = n - 1}, t \in Topics}

\* The ids an exclusion set can hold: those of the candidates and one more
ExcludableIds == 1..(MaxTopics + 1)

SelectInit ==
    /\ all_accounts = FullRoster(1)
    /\ JOB_TOTAL = 1
    /\ JOB_INDEX = 0
    /\ BROWSE_ENABLED = TRUE
    /\ REPLY_ENABLED = TRUE
    /\ today = 1
    /\ launches = <<>>
    /\ BackoffIdle
    /\ ScheduleIdle
    /\ ForumIdle
    /\ SideIdle
    /\ sel_pc = "call"
    /\ sel_cached \in {<<>>} \cup {<<l>> : l \in ListsUpTo(MaxTopics)}
    /\ sel_exclude \in {<<>>} \cup {<<S>> : S \in SUBSET ExcludableIds}
    /\ sel_result = <<>>
    /\ WorkerIdle

\* if exclude_ids is None: exclude_ids = set()
ExcludeIdsOf(exclude) == IF exclude = <<>> THEN {} ELSE exclude[1]

\* One call of select_topic (lines 279-295); without _cached_candidates the
\* list is what _fetch_topic_candidates returns
SelectCall ==
    /\ sel_pc = "call"
    /\ \E fetched \in ListsUpTo(MaxTopics) :
        LET candidates == IF sel_cached # <<>> THEN sel_cached[1] ELSE fetched
        IN  \E chosen \in SelectTopic(candidates, ExcludeIdsOf(sel_exclude)) :
                sel_result' = <<[kind |-> "return", value |-> chosen, candidates |-> candidates]>>
    /\ sel_pc' = "returned"
    /\ UNCHANGED <<sel_cached, sel_exclude, configVars, launches, backoffVars, scheduleVars, forumVars, sideVars, workerVars>>

SelectNext == SelectCall

SpecSelect == SelectInit /\ [][SelectNext]_vars

\* C10: select_topic never returns a candidate whose id is in exclude_ids; when
\* no candidate is left after the exclusion (an empty candidate list included)
\* it returns None and raises nothing; otherwise it returns one of the candidates.
C10_SelectTopicRespectsExclusion ==
    sel_pc = "returned" =>
        LET r == sel_result[1]
            left == {k \in 1..Len(r.candidates) :
                        r.candidates[k].id \notin ExcludeIdsOf(sel_exclude)}
        IN  /\ r.kind = "return"
            /\ (left = {} <=> r.value = <<>>)
            /\ r.value # <<>> =>
                /\ r.value[1].id \notin ExcludeIdsOf(sel_exclude)
                /\ \E k \in left : r.candidates[k] = r.value[1]

\* Every candidate of a non-empty list was excluded and the call returned None
C10_Witness ==
    /\ sel_pc = "returned"
    /\ sel_cached # <<>>
    /\ Len(sel_cached[1]) = MaxTopics
    /\ sel_exclude # <<>>
    /\ sel_result[1].kind = "return"
    /\ sel_result[1].value = <<>>

----------------------------------------------------------------------------
(* The schedule predicates: reply_engine.py lines 155-194, main.py lines 75-104 *)

BjtOffset == 8          \* _BJT = timezone(timedelta(hours=8))
SlotSplitHour == 10     \* utc_hour < 10
ReplyDays == 2          \* rng.sample(range(7), 2)
CronPeriod == 6         \* cron: 0 */6 * * *

\* The clock counts hours from a Monday 00:00 UTC that opens ISO week 1 in
\* Beijing time eight hours earlier; the hours of a day the model looks at are
\* a morning hour, the hours on both sides of the slot boundary and the hours
\* on both sides of midnight in Beijing.
ClockHours == {6, 9, 10, 15, 16}

Clock == {d * 24 + h : d \in 0..(MaxWeeks * 7 - 1), h \in ClockHours}

\* datetime.now(_BJT): the wall clock of UTC+8
NowBjt(now) == now + BjtOffset

\* now_bjt.isocalendar()[1]
WeekNumber(now) == 1 + (NowBjt(now) \div 168)

\* now_bjt.weekday(), 0 = Monday .. 6 = Sunday
Weekday(now) == (NowBjt(now) \div 24) % 7

\* datetime.now(timezone.utc).hour
UtcHour(now) == now % 24

\* The characters of the hashed keys
KeyChars == DigitChars \o <<":", "-", "b", "o", "k", "m", "a", "r">>

CharCode(c) == CHOOSE k \in 1..Len(KeyChars) : KeyChars[k] = c

\* int(hashlib.md5(key.encode()).hexdigest(), 16), abstracted: a hash of the
\* characters of the key
RECURSIVE Md5From(_, _)
Md5From(key, h) ==
    IF key = <<>> THEN h
    ELSE Md5From(Tail(key), ((h + CharCode(Head(key))) * (h + CharCode(Head(key))) + 5) % 1009)

Md5Int(key) == Md5From(key, 7)

\* "bookmark:"
BookmarkPrefix == <<"b", "o", "o", "k", "m", "a", "r", "k", ":">>

\* rng.sample(range(7), k) on generator state s: k draws from a pool whose
\* drawn entry is replaced by the last entry still in it
RECURSIVE SampleFrom(_, _, _, _, _)
SampleFrom(pool, s, n, k, result) ==
    IF k = 0 THEN result
    ELSE LET j == RandBelow(s, n) + 1
         IN  SampleFrom([pool EXCEPT ![j] = pool[n]], RngStep(s), n - 1, k - 1,
                        Append(result, pool[j]))

Sample(s, k) == SampleFrom([d \in 1..7 |-> d - 1], s, 7, k, <<>>)

\* sorted(list of ints)
RECURSIVE SortedInts(_)
SortedInts(s) ==
    IF s = <<>> THEN <<>>
    ELSE LET k == CHOOSE a \in 1..Len(s) : \A b \in 1..Len(s) : s[a] <= s[b]
         IN  <<s[k]>> \o SortedInts(SubSeq(s, 1, k - 1) \o SubSeq(s, k + 1, Len(s)))

\* A variant that draws from the process-wide generator instead of a seeded one
DaysGeneratorGlobal(seed, global_state) == global_state

\* random.Random(seed)
DaysGenerator(seed, global_state) == SeedRandom(seed)

\* get_active_days(username, week_number): 2 day indices, sorted
GetActiveDays(name, week_number, global_state) ==
    LET seed == Md5Int(Str(name) \o <<":">> \o Str(week_number))
        rng == DaysGenerator(seed, global_state)
    IN  SortedInts(Sample(rng, ReplyDays))

\* The days of should_read_bookmarks_today (main.py lines 85-89): 1 to 3 day
\* indices, sorted
BookmarkDays(name, week_number, global_state) ==
    LET seed == Md5Int(BookmarkPrefix \o Str(name) \o <<":">> \o Str(week_number))
        rng == DaysGenerator(seed, global_state)
        count == 1 + RandBelow(rng, 3)
    IN  SortedInts(Sample(RngStep(rng), count))

\* get_reply_run(username)
GetReplyRun(name) == IF Md5Int(Str(name)) % 2 = 0 THEN "morning" ELSE "evening"

\* A variant that hashes the key of the bookmark days
BookmarkSlotOwnKey(name) ==
    IF Md5Int(BookmarkPrefix \o Str(name)) % 2 = 0 THEN "morning" ELSE "evening"

\* assigned_slot of should_read_bookmarks_today (main.py lines 95-96)
BookmarkSlot(name) == IF Md5Int(Str(name)) % 2 = 0 THEN "morning" ELSE "evening"

\* A variant with the boundary hour in the morning
CurrentRunSlotInclusive(utc_hour) == IF utc_hour <= SlotSplitHour THEN "morning" ELSE "evening"

\* _current_run_slot(), from the UTC hour
CurrentRunSlot(utc_hour) == IF utc_hour < SlotSplitHour THEN "morning" ELSE "evening"

\* current_slot of should_read_bookmarks_today (main.py lines 97-98)
BookmarkCurrentSlot(utc_hour) == IF utc_hour < SlotSplitHour THEN "morning" ELSE "evening"

\* should_reply_today(username) called at hour now: what it computed and returned
ShouldReplyToday(name, now, global_state) ==
    LET active_days == GetActiveDays(name, WeekNumber(now), global_state)
        run_slot == GetReplyRun(name)
        current_slot == CurrentRunSlot(UtcHour(now))
    IN  IF Weekday(now) \notin Range(active_days)
        THEN [fn |-> "reply", now |-> now, days |-> active_days, assigned |-> <<>>,
              current |-> <<>>, result |-> FALSE]
        ELSE [fn |-> "reply", now |-> now, days |-> active_days, assigned |-> <<run_slot>>,
              current |-> <<current_slot>>, result |-> (run_slot = current_slot)]

\* should_read_bookmarks_today(username) called at hour now
ShouldReadBookmarksToday(name, now, global_state) ==
    LET days == BookmarkDays(name, WeekNumber(now), global_state)
        assigned_slot == BookmarkSlot(name)
        current_slot == BookmarkCurrentSlot(UtcHour(now))
    IN  IF Weekday(now) \notin Range(days)
        THEN [fn |-> "bookmark", now |-> now, days |-> days, assigned |-> <<>>,
              current |-> <<>>, result |-> FALSE]
        ELSE [fn |-> "bookmark", now |-> now, days |-> days, assigned |-> <<assigned_slot>>,
              current |-> <<current_slot>>, result |-> (assigned_slot = current_slot)]

ScheduleUsers == 1..MaxAccounts

\* States the process-wide generator of a calling process may be in
ProcessStates == {0, 14, 28}

\* One account; the predicates are then called at arbitrary hours by
\* processes whose process-wide generator is in an arbitrary state
ScheduleInit ==
    /\ all_accounts = <<>>
    /\ JOB_TOTAL = 1
    /\ JOB_INDEX = 0
    /\ BROWSE_ENABLED = TRUE
    /\ REPLY_ENABLED = TRUE
    /\ today = 1
    /\ launches = <<>>
    /\ BackoffIdle
    /\ SelectIdle
    /\ WorkerIdle
    /\ ForumIdle
    /\ SideIdle
    /\ sc_username \in ScheduleUsers
    /\ sc_prev = <<>>
    /\ sc_last = <<>>
    /\ cr_now = 0
    /\ cr_replies = <<>>

AskReply ==
    /\ sc_prev = <<>>
    /\ \E now \in Clock, global_state \in ProcessStates :
        sc_last' = <<ShouldReplyToday(sc_username, now, global_state)>>
    /\ sc_prev' = sc_last
    /\ UNCHANGED <<sc_username, cr_now, cr_replies>>
    /\ UNCHANGED <<configVars, launches, backoffVars, selectVars, forumVars, sideVars, workerVars>>

AskBookmark ==
    /\ sc_prev = <<>>
    /\ \E now \in Clock, global_state \in ProcessStates :
        sc_last' = <<ShouldReadBookmarksToday(sc_username, now, global_state)>>
    /\ sc_prev' = sc_last
    /\ UNCHANGED <<sc_username, cr_now, cr_replies>>
    /\ UNCHANGED <<configVars, launches, backoffVars, selectVars, forumVars, sideVars, workerVars>>

ScheduleNext == AskReply \/ AskBookmark

SpecSchedule == ScheduleInit /\ [][ScheduleNext]_vars

\* The hour of the first scheduled run: the cron line "0 */6 * * *" fires at
\* 0, 6, 12 and 18 o'clock of the host, a host on UTC or on Beijing time
CronOffsets == {0, 4}

\* One account under the cron schedule; cr_replies logs the hours of its replies
CronInit ==
    /\ all_accounts = <<>>
    /\ JOB_TOTAL = 1
    /\ JOB_INDEX = 0
    /\ BROWSE_ENABLED = TRUE
    /\ REPLY_ENABLED = TRUE
    /\ today = 1
    /\ launches = <<>>
    /\ BackoffIdle
    /\ SelectIdle
    /\ WorkerIdle
    /\ ForumIdle
    /\ SideIdle
    /\ sc_username \in ScheduleUsers
    /\ sc_prev = <<>>
    /\ sc_last = <<>>
    /\ cr_now \in CronOffsets
    /\ cr_replies = <<>>

\* One scheduled run of the script (main.py line 2) as far as the account's
\* reply goes: execute_reply posts only when should_reply_today returns true,
\* and then it may still end without a reply (no topic, SKIP, failed post).
\* Nothing of an earlier run is kept: used_topics and used_phrases are created
\* anew by every process (main.py lines 873-875).
CronRun ==
    /\ cr_now < MaxWeeks * 168
    /\ Len(cr_replies) < MaxReplies
    /\ \E posted \in BOOLEAN, global_state \in ProcessStates :
        /\ posted => ShouldReplyToday(sc_username, cr_now, global_state).result
        /\ cr_replies' = (IF posted THEN Append(cr_replies, cr_now) ELSE cr_replies)
    /\ cr_now' = cr_now + CronPeriod
    /\ UNCHANGED <<sc_username, sc_prev, sc_last>>
    /\ UNCHANGED <<configVars, launches, backoffVars, selectVars, forumVars, sideVars, workerVars>>

CronNext == CronRun

SpecCron == CronInit /\ [][CronNext]_vars

----------------------------------------------------------------------------
(* LinuxDoBrowser.run(): main.py lines 506-569, one action per phase *)

InRun == phase \in {"login", "browse", "bookmarks", "notify", "reply", "select", "generate", "post", "finally"}

\* A variant of run() that goes on to the browse phase after a failed login
LoginFailureBrowses ==
    /\ phase = "login"
    /\ \E res \in {"ok", "false", "rate_limited", "raises"} :
        /\ login_success' = (res = "ok")
        /\ IF res = "ok" THEN \E tok \in {0, 1} : stored_csrf' = tok
           ELSE stored_csrf' = stored_csrf
        /\ exc' = (IF res = "rate_limited" THEN <<RateLimitedMsg(RateLimitWait)>>
                   ELSE IF res = "raises" THEN <<GenericMsg>> ELSE <<>>)
        /\ phase' = (IF res \in {"ok", "false"} THEN "browse" ELSE "finally")
    /\ UNCHANGED <<bookmark_today, username, reply_result>>
    /\ UNCHANGED <<configVars, launches, backoffVars, selectVars, scheduleVars, forumVars, sideVars, loopVars, sharedVars, replyVars, released>>

\* login(): True (with or without a stored CSRF token), False,
\* "rate_limited" (run raises RATE_LIMITED:<wait>), or an exception
Login ==
    /\ phase = "login"
    /\ \E res \in {"ok", "false", "rate_limited", "raises"} :
        /\ login_success' = (res = "ok")
        /\ IF res = "ok" THEN \E tok \in {0, 1} : stored_csrf' = tok
           ELSE stored_csrf' = stored_csrf
        /\ exc' = (IF res = "rate_limited"
                   THEN <<RateLimitedMsg(GetRateLimitWait(<<RateLimitWait>>))>>
                   ELSE IF res = "raises" THEN <<GenericMsg>> ELSE <<>>)
        /\ phase' = (IF res = "ok" THEN "browse" ELSE "finally")
    /\ UNCHANGED <<bookmark_today, username, reply_result>>
    /\ UNCHANGED <<configVars, launches, backoffVars, selectVars, scheduleVars, forumVars, sideVars, loopVars, sharedVars, replyVars, released>>

\* A variant of the browse phase that reads the bookmarks after every completed browse
BrowseAlwaysReadsBookmarks ==
    /\ phase = "browse"
    /\ \E res \in (IF BROWSE_ENABLED THEN {"skipped", "completed", "no_topics", "raises"}
                   ELSE {"disabled"}), scheduled \in BOOLEAN :
        /\ exc' = (IF res = "raises" THEN <<GenericMsg>> ELSE <<>>)
        /\ bookmark_today' = (IF res = "completed" THEN <<scheduled>> ELSE <<>>)
        /\ phase' = (IF res \in {"no_topics", "raises"} THEN "finally"
                     ELSE IF res = "completed" THEN "bookmarks" ELSE "notify")
    /\ UNCHANGED <<username, login_success, reply_result, stored_csrf>>
    /\ UNCHANGED <<configVars, launches, backoffVars, selectVars, scheduleVars, forumVars, sideVars, loopVars, sharedVars, replyVars, released>>

\* The browse phase (main.py lines 519-538): not enabled, skipped by chance,
\* completed, click_topic finding no topics (run returns), or a step raising.
\* After a completed browse should_read_bookmarks_today is asked, and
\* read_from_bookmarks follows when it returned true.
Browse ==
    /\ phase = "browse"
    /\ \E res \in (IF BROWSE_ENABLED THEN {"skipped", "completed", "no_topics", "raises"}
                   ELSE {"disabled"}), scheduled \in BOOLEAN :
        /\ exc' = (IF res = "raises" THEN <<GenericMsg>> ELSE <<>>)
        /\ bookmark_today' = (IF res = "completed" THEN <<scheduled>> ELSE <<>>)
        /\ phase' = (IF res \in {"no_topics", "raises"} THEN "finally"
                     ELSE IF res = "completed" /\ scheduled THEN "bookmarks" ELSE "notify")
    /\ UNCHANGED <<username, login_success, reply_result, stored_csrf>>
    /\ UNCHANGED <<configVars, launches, backoffVars, selectVars, scheduleVars, forumVars, sideVars, loopVars, sharedVars, replyVars, released>>

\* read_from_bookmarks (main.py lines 687-733): it catches what it raises
ReadBookmarks ==
    /\ phase = "bookmarks"
    /\ phase' = "notify"
    /\ UNCHANGED <<bookmark_today, username, login_success, reply_result, stored_csrf, exc>>
    /\ UNCHANGED <<configVars, launches, backoffVars, selectVars, scheduleVars, forumVars, sideVars, loopVars, sharedVars, replyVars, released>>

\* send_notifications, then the gate of the reply phase (if REPLY_ENABLED);
\* the browse block and what it computed are left behind
Notify ==
    /\ phase = "notify"
    /\ \E ok \in BOOLEAN :
        /\ exc' = (IF ok THEN <<>> ELSE <<GenericMsg>>)
        /\ phase' = (IF ok /\ REPLY_ENABLED THEN "reply" ELSE "finally")
    /\ bookmark_today' = <<>>
    /\ UNCHANGED <<username, login_success, reply_result, stored_csrf>>
    /\ UNCHANGED <<configVars, launches, backoffVars, selectVars, scheduleVars, forumVars, sideVars, loopVars, sharedVars, replyVars, released>>

\* A variant of execute_reply without the schedule check
\* A variant that prefers the token stored at login
ReplyTokenStoredFirst(fresh, stored) == IF stored # 0 THEN stored ELSE fresh

\* csrf_token after the refresh (reply_engine.py lines 448-464): the fresh
\* token, else browser._csrf_token; 0 is None or ""
ReplyToken(fresh, stored) == IF fresh # 0 THEN fresh ELSE stored

ReplyStartUnscheduled ==
    /\ phase = "reply"
    /\ \E raises \in BOOLEAN, scheduled \in BOOLEAN, fresh \in {0, 2}, cands \in CandidateLists :
        LET token == ReplyToken(fresh, stored_csrf)
        IN  /\ reply_today' = <<scheduled>>
            /\ IF raises
               THEN /\ phase' = "finally"
                    /\ UNCHANGED <<stored_csrf, csrf_token, fresh_csrf, cached_candidates>>
               ELSE /\ fresh_csrf' = <<fresh>>
                    /\ stored_csrf' = token
                    /\ csrf_token' = token
                    /\ IF token = 0
                       THEN /\ phase' = "finally"
                            /\ UNCHANGED <<cached_candidates>>
                       ELSE /\ phase' = "select"
                            /\ cached_candidates' = cands
    /\ reply_result' = <<>>
    /\ UNCHANGED <<tried_ids, attempt, candidate, topic, reply_text, is_ai, post_call, released>>
    /\ UNCHANGED <<bookmark_today, username, login_success, exc>>
    /\ UNCHANGED <<configVars, launches, backoffVars, selectVars, scheduleVars, forumVars, sideVars, loopVars, sharedVars>>

\* execute_reply up to the candidate fetch (reply_engine.py lines 423-473):
\* the schedule check (return None off schedule), the CSRF token (fresh, else
\* the stored one, else give up), the candidate list.  An exception of the
\* reply phase is caught by run.
ReplyStart ==
    /\ phase = "reply"
    /\ \E raises \in BOOLEAN, scheduled \in BOOLEAN, fresh \in {0, 2}, cands \in CandidateLists :
        LET token == ReplyToken(fresh, stored_csrf)
        IN  /\ reply_today' = <<scheduled>>
            /\ IF raises \/ ~scheduled
               THEN /\ phase' = "finally"
                    /\ UNCHANGED <<stored_csrf, csrf_token, fresh_csrf, cached_candidates>>
               ELSE /\ fresh_csrf' = <<fresh>>
                    /\ stored_csrf' = token
                    /\ csrf_token' = token
                    /\ IF token = 0
                       THEN /\ phase' = "finally"
                            /\ UNCHANGED <<cached_candidates>>
                       ELSE /\ phase' = "select"
                            /\ cached_candidates' = cands
    /\ reply_result' = <<>>
    /\ UNCHANGED <<tried_ids, attempt, candidate, topic, reply_text, is_ai, post_call, released>>
    /\ UNCHANGED <<bookmark_today, username, login_success, exc>>
    /\ UNCHANGED <<configVars, launches, backoffVars, selectVars, scheduleVars, forumVars, sideVars, loopVars, sharedVars>>

\* One iteration of the selection loop (reply_engine.py lines 476-502);
\* already_replied[id] is status["already_replied"] of _check_topic_status
\* for the topic id
SelectWith(already_replied) ==
    /\ phase = "select"
    /\ attempt < SelectAttempts
    /\ \E cand \in SelectTopic(cached_candidates, tried_ids) :
        /\ candidate' = cand
        /\ IF cand = <<>>
           THEN \* break; no topic: return None
                /\ phase' = "finally"
                /\ UNCHANGED <<tried_ids, attempt, topic>>
           ELSE /\ tried_ids' = tried_ids \cup {cand[1].id}
                /\ IF TopicUsed(cand[1].id, used_topics) \/ already_replied[cand[1].id]
                   THEN \* continue; after the last iteration: return None
                        /\ attempt' = attempt + 1
                        /\ phase' = (IF attempt + 1 < SelectAttempts THEN "select" ELSE "finally")
                        /\ UNCHANGED topic
                   ELSE /\ topic' = cand
                        /\ phase' = "generate"
                        /\ UNCHANGED attempt
    /\ UNCHANGED <<csrf_token, fresh_csrf, cached_candidates, reply_text, is_ai, post_call, reply_today,
                   released>>
    /\ UNCHANGED <<bookmark_today, username, login_success, reply_result, stored_csrf, exc>>
    /\ UNCHANGED <<configVars, launches, backoffVars, selectVars, scheduleVars, forumVars, sideVars, loopVars, sharedVars>>

\* The selection loop in a worker run: the forum answers the status check
\* either way
SelectStep == \E replied \in BOOLEAN : SelectWith([t \in Topics |-> replied])

\* The reply text (reply_engine.py lines 510-530): the generator's text, "SKIP"
\* (return None), or a pool phrase when the generator returns None
Generate ==
    /\ phase = "generate"
    /\ \E gen \in {SKIP, NoText} \cup GeneratedTexts :
        IF IsSkip(gen)
        THEN /\ reply_text' = gen
             /\ phase' = "finally"
             /\ UNCHANGED is_ai
        ELSE /\ is_ai' = (gen # NoText)
             /\ IF gen = NoText
                THEN \E phrase \in AvailablePhrases(used_phrases) : reply_text' = phrase
                ELSE reply_text' = gen
             /\ phase' = "post"
    /\ UNCHANGED <<csrf_token, fresh_csrf, cached_candidates, tried_ids, attempt, candidate, topic, post_call,
                   reply_today, released>>
    /\ UNCHANGED <<bookmark_today, username, login_success, reply_result, stored_csrf, exc>>
    /\ UNCHANGED <<configVars, launches, backoffVars, selectVars, scheduleVars, forumVars, sideVars, loopVars, sharedVars>>

\* The read simulation and post_reply (reply_engine.py lines 532-588)
Post ==
    /\ phase = "post"
    /\ \E success \in BOOLEAN :
        /\ post_call' = <<[topic_id |-> topic[1].id, text |-> reply_text,
                           csrf_token |-> csrf_token, success |-> success]>>
        /\ IF success
           THEN /\ used_topics' = UsedTopicsAfterPost(used_topics, topic[1].id)
                /\ used_phrases' = used_phrases \cup {reply_text}
                /\ reply_result' = <<[username |-> username,
                                      topic_id |-> topic[1].id,
                                      topic_title |-> topic[1].title,
                                      reply_text |-> reply_text]>>
           ELSE UNCHANGED <<used_topics, used_phrases, reply_result>>
    /\ phase' = "finally"
    /\ UNCHANGED <<csrf_token, fresh_csrf, cached_candidates, tried_ids, attempt, candidate, topic,
                   reply_text, is_ai, reply_today, released>>
    /\ UNCHANGED <<bookmark_today, username, login_success, stored_csrf, exc>>
    /\ UNCHANGED <<configVars, launches, backoffVars, selectVars, scheduleVars, forumVars, sideVars, loopVars>>

\* The calls of the finally block, in order
ReleaseCalls == <<"page.close", "browser.quit", "_cleanup_chrome_processes">>

\* The release calls that fail: none, or all of them (the browser is gone)
ReleaseFailures == {{}, Range(ReleaseCalls)}

\* A variant without the guards: the failure leaves the statement
RaisesUnguarded(fails) == fails

\* try: call() except Exception: pass (lines 560-567, and lines 147-159 inside
\* _cleanup_chrome_processes): whether an exception leaves the statement
RaisesGuarded(fails) == FALSE

\* The calls the finally block makes from its k-th statement on: it ends at
\* the first statement an exception leaves
RECURSIVE ReleaseFrom(_, _)
ReleaseFrom(failing, k) ==
    IF k > Len(ReleaseCalls) THEN <<>>
    ELSE <<ReleaseCalls[k]>> \o
         (IF RaisesGuarded(ReleaseCalls[k] \in failing) THEN <<>>
          ELSE ReleaseFrom(failing, k + 1))

\* The exception that leaves run(): one that left a statement of the finally
\* block, else the pending one
ExcAfterRelease(failing, pending) ==
    IF \E k \in 1..Len(ReleaseCalls) : RaisesGuarded(ReleaseCalls[k] \in failing)
    THEN <<GenericMsg>> ELSE pending

\* finally (lines 559-569): page.close(), browser.quit(),
\* _cleanup_chrome_processes(), which may fail; then run returns, or
\* the exception goes on to the caller
Cleanup ==
    /\ phase = "finally"
    /\ \E failing \in ReleaseFailures :
        /\ released' = ReleaseFrom(failing, 1)
        /\ exc' = ExcAfterRelease(failing, exc)
        /\ phase' = (IF ExcAfterRelease(failing, exc) = <<>>
                     THEN "returned" ELSE "raised")
    /\ UNCHANGED <<bookmark_today, username, login_success, reply_result, stored_csrf>>
    /\ UNCHANGED <<csrf_token, fresh_csrf, cached_candidates, tried_ids, attempt, candidate, topic,
                   reply_text, is_ai, post_call, reply_today>>
    /\ UNCHANGED <<configVars, launches, backoffVars, selectVars, scheduleVars, forumVars, sideVars, loopVars, sharedVars>>

RunNext == Login \/ Browse \/ ReadBookmarks \/ Notify \/ ReplyStart \/ SelectStep \/ Generate \/ Post \/ Cleanup

----------------------------------------------------------------------------
(* One reply phase from the selection loop on, against a forum that knows the
   topics the account takes part in: reply_engine.py lines 469-588 *)

\* Ids of the topics _fetch_topic_candidates returned
CandidateIds(n) == 1..n

\* A variant of the status check that trusts a failed fetch to mean "replied"
CheckTopicStatusFailClosed(fetched, topic_id, participates) ==
    ~fetched \/ topic_id \in participates

\* status["already_replied"] of _check_topic_status (lines 298-349): true when
\* /t/{id}.json was fetched and names the account among the participants or
\* the posters; false when the fetch returns nothing or anything raises
CheckTopicStatus(fetched, topic_id, participates) ==
    fetched /\ topic_id \in participates

\* execute_reply has its CSRF token and its candidates (line 470): n topics,
\* some used by earlier accounts of the run, some the account takes part in,
\* some pool phrases used by earlier accounts
ReplyInit ==
    /\ all_accounts = FullRoster(1)
    /\ JOB_TOTAL = 1
    /\ JOB_INDEX = 0
    /\ BROWSE_ENABLED = TRUE
    /\ REPLY_ENABLED = TRUE
    /\ today = 1
    /\ launches = <<>>
    /\ BackoffIdle
    /\ SelectIdle
    /\ ScheduleIdle
    /\ SideIdle
    /\ pc = "main_run"
    /\ accounts = all_accounts
    /\ i = 1
    /\ success_list = <<>>
    /\ fail_list = <<>>
    /\ replied_accounts = <<>>
    /\ rate_limited_queue = <<>>
    /\ slept = <<>>
    /\ backoffs = 0
    /\ attempts = [u \in {all_accounts[1].username} |-> 1]
    /\ results_file = <<>>
    /\ phase = "select"
    /\ username = all_accounts[1].username
    /\ login_success = TRUE
    /\ reply_result = <<>>
    /\ stored_csrf = 2
    /\ bookmark_today = <<>>
    /\ exc = <<>>
    /\ csrf_token = 2
    /\ fresh_csrf = <<2>>
    /\ \E n \in 0..MaxCandidates :
        /\ cached_candidates = SortedSeq(CandidateIds(n))
        /\ used_topics \in SUBSET CandidateIds(n)
        /\ fo_participates \in SUBSET CandidateIds(n)
    /\ used_phrases \in SUBSET Range(REPLY_POOL)
    /\ tried_ids = {}
    /\ attempt = 0
    /\ candidate = <<>>
    /\ topic = <<>>
    /\ reply_text = NoText
    /\ is_ai = FALSE
    /\ post_call = <<>>
    /\ reply_today = <<TRUE>>
    /\ released = <<>>

\* One iteration of the selection loop with the status check of lines 490-494
SelectChecked ==
    \E fetched \in BOOLEAN :
        SelectWith([t \in CandidateIds(MaxCandidates) |->
                       CheckTopicStatus(fetched, t, fo_participates)])

ReplyNext == SelectChecked \/ Generate \/ Post \/ Cleanup

SpecReply == ReplyInit /\ [][ReplyNext]_vars

----------------------------------------------------------------------------
(* The worker: __main__ of main.py, lines 840-981 *)

\* username or f"account_{i}"
AccountLabel(account, idx) == IF account.username # 0 THEN account.username ELSE 0 - idx

Usernames(roster) == {roster[k].username : k \in 1..Len(roster)} \ {0}

\* The worker's inputs.  BROWSE_ENABLED only decides whether the browse step of
\* an account's run is taken, so the runs without browsing are those of the
\* one-account rosters.
Init ==
    /\ all_accounts \in Rosters
    /\ JOB_TOTAL \in 1..MaxJobs
    /\ JOB_INDEX \in 0..(JOB_TOTAL - 1)
    /\ BROWSE_ENABLED \in (IF Len(all_accounts) = 1 THEN BOOLEAN ELSE {TRUE})
    /\ REPLY_ENABLED \in BOOLEAN
    /\ today = 1
    /\ launches = <<>>
    /\ BackoffIdle
    /\ SelectIdle
    /\ ScheduleIdle
    /\ ForumIdle
    /\ SideIdle
    /\ pc = "start"
    /\ accounts = <<>>
    /\ i = 0
    /\ success_list = <<>>
    /\ fail_list = <<>>
    /\ replied_accounts = <<>>
    /\ rate_limited_queue = <<>>
    /\ used_topics = {}
    /\ used_phrases = {}
    /\ slept = <<>>
    /\ backoffs = 0
    /\ attempts = <<>>
    /\ results_file = <<>>
    /\ BrowserIdle
    /\ ReplyIdle

\* Lines 845-879: the start-up stagger, the shuffle, the worker's share, the
\* empty lists and sets
Startup ==
    /\ pc = "start"
    /\ \E global_state \in RngStates :
        accounts' = StartupAccounts(all_accounts, JOB_INDEX, JOB_TOTAL, Dates[today], global_state)
    /\ attempts' = [u \in Usernames(all_accounts) |-> 0]
    /\ i' = 1
    /\ pc' = "main_loop"
    /\ UNCHANGED <<success_list, fail_list, replied_accounts, rate_limited_queue, slept,
                   backoffs, results_file>>
    /\ UNCHANGED <<configVars, launches, backoffVars, selectVars, scheduleVars, forumVars, sideVars, sharedVars, browserVars, replyVars, released>>

\* LinuxDoBrowser(username, password) followed by browser.run(): the
\* constructor either raises or leaves a browser about to log in.  (Line 186
\* reads self.log, which nothing assigns before; where that attribute is
\* missing every construction raises, which is the first of the two cases.)
NewBrowser(account) ==
    /\ \E constructed \in BOOLEAN :
        /\ phase' = (IF constructed THEN "login" ELSE "raised")
        /\ exc' = (IF constructed THEN <<>> ELSE <<GenericMsg>>)
    /\ username' = account.username
    /\ login_success' = FALSE
    /\ reply_result' = <<>>
    /\ stored_csrf' = 0
    /\ bookmark_today' = <<>>
    /\ attempts' = [attempts EXCEPT ![account.username] = @ + 1]

\* Lines 881-896: the next account of the main pass; an account without
\* username or password is failed at once (continue)
MainBegin ==
    /\ pc = "main_loop"
    /\ i <= Len(accounts)
    /\ IF accounts[i].username = 0 \/ accounts[i].password = 0
       THEN /\ fail_list' = Append(fail_list, AccountLabel(accounts[i], i))
            /\ i' = i + 1
            /\ UNCHANGED <<pc, attempts, browserVars>>
       ELSE /\ NewBrowser(accounts[i])
            /\ pc' = "main_run"
            /\ UNCHANGED <<fail_list, i>>
    /\ UNCHANGED <<accounts, success_list, replied_accounts, rate_limited_queue, slept,
                   backoffs, results_file>>
    /\ UNCHANGED <<configVars, launches, backoffVars, selectVars, scheduleVars, forumVars, sideVars, sharedVars, replyVars, released>>

\* The frames of execute_reply and run() are gone once run() is over
ReplyReturn ==
    /\ csrf_token' = 0
    /\ fresh_csrf' = <<>>
    /\ cached_candidates' = <<>>
    /\ tried_ids' = {}
    /\ attempt' = 0
    /\ candidate' = <<>>
    /\ topic' = <<>>
    /\ reply_text' = NoText
    /\ is_ai' = FALSE
    /\ post_call' = <<>>
    /\ reply_today' = <<>>
    /\ released' = <<>>

\* A variant that drops an account whose login failed
ListsAfterReturnDropsFailed(ok, name, success, fail) ==
    IF ok THEN <<Append(success, name), fail>> ELSE <<success, fail>>

\* Lines 897-904 and 943-950: run() returned; <<success_list, fail_list>>
ListsAfterReturn(ok, name, success, fail) ==
    IF ok THEN <<Append(success, name), fail>> ELSE <<success, Append(fail, name)>>

\* if browser.reply_result: replied_accounts.append(browser.reply_result)
RepliedAfterReturn(ok, result, replied) ==
    IF ok /\ result # <<>> THEN Append(replied, result[1]) ELSE replied

\* The normal delay between accounts: random.uniform(ACCOUNT_DELAY, ACCOUNT_DELAY + 15)
DelaySleep == <<"delay">>

\* A variant that falls through to the normal delay after the backoff
SleepOnRateLimitThenDelay(error_msg) == DelaySleep

\* Lines 916-919: time.sleep(wait_secs), then continue past the normal delay;
\* the last sleep of the worker
SleepOnRateLimit(error_msg) == <<"backoff", BackoffSleep(error_msg)>>

\* Lines 896-928: browser.run() is over in the main pass.  A RATE_LIMITED
\* exception queues the account and stalls the worker; any other exception
\* fails the account.
MainRecord ==
    /\ pc = "main_run"
    /\ phase \in {"returned", "raised"}
    /\ IF phase = "returned"
       THEN /\ success_list' = ListsAfterReturn(login_success, username, success_list, fail_list)[1]
            /\ fail_list' = ListsAfterReturn(login_success, username, success_list, fail_list)[2]
            /\ replied_accounts' = RepliedAfterReturn(login_success, reply_result, replied_accounts)
            /\ slept' = (IF i < Len(accounts) THEN DelaySleep ELSE slept)
            /\ UNCHANGED <<rate_limited_queue, backoffs>>
       ELSE IF IsRateLimited(exc[1])
            THEN /\ rate_limited_queue' = Append(rate_limited_queue, accounts[i])
                 /\ slept' = SleepOnRateLimit(exc[1])
                 /\ backoffs' = backoffs + 1
                 /\ UNCHANGED <<success_list, fail_list, replied_accounts>>
            ELSE /\ fail_list' = Append(fail_list, username)
                 /\ slept' = (IF i < Len(accounts) THEN DelaySleep ELSE slept)
                 /\ UNCHANGED <<success_list, replied_accounts, rate_limited_queue, backoffs>>
    /\ i' = i + 1
    /\ pc' = "main_loop"
    /\ ReplyReturn
    /\ UNCHANGED <<accounts, attempts, results_file>>
    /\ UNCHANGED <<configVars, launches, backoffVars, selectVars, scheduleVars, forumVars, sideVars, sharedVars, browserVars>>

\* A variant that never runs the retry pass
RetryNeededNever(queue) == FALSE

\* if rate_limited_queue:
RetryNeeded(queue) == queue # <<>>

\* The main pass is over (line 930)
MainExit ==
    /\ pc = "main_loop"
    /\ i > Len(accounts)
    /\ pc' = (IF RetryNeeded(rate_limited_queue) THEN "retry_loop" ELSE "summary")
    /\ i' = 1
    /\ UNCHANGED <<accounts, success_list, fail_list, replied_accounts, rate_limited_queue,
                   slept, backoffs, attempts, results_file>>
    /\ UNCHANGED <<configVars, launches, backoffVars, selectVars, scheduleVars, forumVars, sideVars, sharedVars, browserVars, replyVars, released>>

\* A variant that retries the queue from its end
RetryAccountReversed(queue, idx) == queue[Len(queue) + 1 - idx]

\* for i, account in enumerate(rate_limited_queue, 1)
RetryAccount(queue, idx) == queue[idx]

\* Lines 933-942: the next account of the retry pass
RetryBegin ==
    /\ pc = "retry_loop"
    /\ i <= Len(rate_limited_queue)
    /\ NewBrowser(RetryAccount(rate_limited_queue, i))
    /\ pc' = "retry_run"
    /\ UNCHANGED <<accounts, i, success_list, fail_list, replied_accounts, rate_limited_queue,
                   slept, backoffs, results_file>>
    /\ UNCHANGED <<configVars, launches, backoffVars, selectVars, scheduleVars, forumVars, sideVars, sharedVars, replyVars, released>>

\* A variant of the retry pass that recovers from a rate limit as the main pass does
RetryRecordWithRecovery ==
    /\ pc = "retry_run"
    /\ phase \in {"returned", "raised"}
    /\ IF phase = "returned"
       THEN /\ success_list' = ListsAfterReturn(login_success, username, success_list, fail_list)[1]
            /\ fail_list' = ListsAfterReturn(login_success, username, success_list, fail_list)[2]
            /\ replied_accounts' = RepliedAfterReturn(login_success, reply_result, replied_accounts)
            /\ slept' = (IF i < Len(rate_limited_queue) THEN DelaySleep ELSE slept)
            /\ UNCHANGED <<rate_limited_queue, backoffs>>
       ELSE IF IsRateLimited(exc[1]) /\ backoffs < MaxAccounts
            THEN /\ rate_limited_queue' = Append(rate_limited_queue, rate_limited_queue[i])
                 /\ slept' = <<"backoff", BackoffSleep(exc[1])>>
                 /\ backoffs' = backoffs + 1
                 /\ UNCHANGED <<success_list, fail_list, replied_accounts>>
            ELSE /\ fail_list' = Append(fail_list, username)
                 /\ slept' = (IF i < Len(rate_limited_queue) THEN DelaySleep ELSE slept)
                 /\ UNCHANGED <<success_list, replied_accounts, rate_limited_queue, backoffs>>
    /\ i' = i + 1
    /\ pc' = "retry_loop"
    /\ ReplyReturn
    /\ UNCHANGED <<accounts, attempts, results_file>>
    /\ UNCHANGED <<configVars, launches, backoffVars, selectVars, scheduleVars, forumVars, sideVars, sharedVars, browserVars>>

\* Lines 942-958: browser.run() is over in the retry pass; every exception,
\* a rate limit included, fails the account
RetryRecord ==
    /\ pc = "retry_run"
    /\ phase \in {"returned", "raised"}
    /\ IF phase = "returned"
       THEN /\ success_list' = ListsAfterReturn(login_success, username, success_list, fail_list)[1]
            /\ fail_list' = ListsAfterReturn(login_success, username, success_list, fail_list)[2]
            /\ replied_accounts' = RepliedAfterReturn(login_success, reply_result, replied_accounts)
       ELSE /\ fail_list' = Append(fail_list, username)
            /\ UNCHANGED <<success_list, replied_accounts>>
    /\ slept' = (IF i < Len(rate_limited_queue) THEN DelaySleep ELSE slept)
    /\ i' = i + 1
    /\ pc' = "retry_loop"
    /\ ReplyReturn
    /\ UNCHANGED <<accounts, rate_limited_queue, backoffs, attempts, results_file>>
    /\ UNCHANGED <<configVars, launches, backoffVars, selectVars, scheduleVars, forumVars, sideVars, sharedVars, browserVars>>

\* The retry pass is over
RetryExit ==
    /\ pc = "retry_loop"
    /\ i > Len(rate_limited_queue)
    /\ pc' = "summary"
    /\ UNCHANGED <<accounts, i, success_list, fail_list, replied_accounts, rate_limited_queue,
                   slept, backoffs, attempts, results_file>>
    /\ UNCHANGED <<configVars, launches, backoffVars, selectVars, scheduleVars, forumVars, sideVars, sharedVars, browserVars, replyVars, released>>

\* A variant that counts the whole roster
ResultsTotalOfRoster(roster, share) == Len(roster)

\* total = len(accounts) (line 865)
ResultsTotal(roster, share) == Len(share)

\* f"results_job_{JOB_INDEX}.json"
ResultsFileName(job_index) ==
    <<"r", "e", "s", "u", "l", "t", "s", "_", "j", "o", "b", "_">> \o Str(job_index)
        \o <<".", "j", "s", "o", "n">>

\* Lines 960-981: the summary and results_job_<JOB_INDEX>.json
WriteResults ==
    /\ pc = "summary"
    /\ results_file' = <<[name |-> ResultsFileName(JOB_INDEX),
                          job_index |-> JOB_INDEX,
                          total |-> ResultsTotal(all_accounts, accounts),
                          success |-> success_list,
                          fail |-> fail_list,
                          replied_accounts |-> replied_accounts]>>
    /\ pc' = "done"
    /\ UNCHANGED <<accounts, i, success_list, fail_list, replied_accounts, rate_limited_queue,
                   slept, backoffs, attempts>>
    /\ UNCHANGED <<configVars, launches, backoffVars, selectVars, scheduleVars, forumVars, sideVars, sharedVars, browserVars, replyVars, released>>

Next ==
    \/ Startup
    \/ MainBegin
    \/ MainRecord
    \/ MainExit
    \/ RetryBegin
    \/ RetryRecord
    \/ RetryExit
    \/ WriteResults
    \/ RunNext

Spec == Init /\ [][Next]_vars

\* Sizes of the rosters whose worker runs are followed to their end
FairRosterSizes == 1..2

FairInit == Init /\ Len(all_accounts) \in FairRosterSizes

\* The worker when every external call returns: the interpreter keeps
\* executing the next statement
SpecFair == FairInit /\ [][Next]_vars /\ WF_vars(Next)

----------------------------------------------------------------------------
(* Properties of the worker run *)

\* The topic ids of the reply records collected so far
RepliedTopics == {replied_accounts[k].topic_id : k \in 1..Len(replied_accounts)}

\* How often x occurs in a list
Count(list, x) == Cardinality({k \in 1..Len(list) : list[k] = x})

\* How often x occurs in success_list and fail_list together
Recorded(x) == Count(success_list, x) + Count(fail_list, x)

\* C1: within one worker run no two reply records in replied_accounts name the
\* same topic id: a topic of a successful post is in used_topics from then on,
\* and no later account of the run posts to the topic of an earlier record.
C1_NoTopicRepliedTwice ==
    /\ \A a, b \in 1..Len(replied_accounts) :
          a # b => replied_accounts[a].topic_id # replied_accounts[b].topic_id
    /\ RepliedTopics \subseteq used_topics
    /\ post_call # <<>> =>
          /\ post_call[1].topic_id \notin RepliedTopics
          /\ post_call[1].success => post_call[1].topic_id \in used_topics
    /\ (pc \in {"main_run", "retry_run"} /\ reply_result # <<>>) =>
          reply_result[1].topic_id \notin RepliedTopics

\* A later account drew the topic of an earlier record, was turned away from
\* it, and posted to another topic
C1_Witness ==
    /\ replied_accounts # <<>>
    /\ tried_ids \cap RepliedTopics # {}
    /\ post_call # <<>>
    /\ post_call[1].success
    /\ reply_result # <<>>

\* C2: when the worker finishes, every account of its share is exactly once
\* in success_list or fail_list, never in both, and
\* len(success) + len(fail) == total, in the result file too.
C2_EveryAccountRecordedOnce ==
    pc \in {"summary", "done"} =>
        /\ \A k \in 1..Len(accounts) : Recorded(AccountLabel(accounts[k], k)) = 1
        /\ Len(success_list) + Len(fail_list) = Len(accounts)
        /\ pc = "done" =>
              /\ results_file[1].total = Len(accounts)
              /\ Len(results_file[1].success) + Len(results_file[1].fail)
                    = results_file[1].total

\* A finished worker with a success, a failure and a retried account
C2_Witness ==
    /\ pc = "done"
    /\ success_list # <<>>
    /\ fail_list # <<>>
    /\ rate_limited_queue # <<>>

\* The accounts of the share that have a username and a password
Attemptable == {k \in 1..Len(accounts) : accounts[k].username # 0 /\ accounts[k].password # 0}

\* The usernames in the retry queue
Queued == {rate_limited_queue[k].username : k \in 1..Len(rate_limited_queue)}

\* C3: an account rate-limited in the main pass is put in the retry queue and at
\* that point in neither list; it is attempted exactly once more, in the retry
\* pass, which starts only after every account of the main pass was attempted;
\* after that one retry it is never attempted again.
C3_RateLimitedRetriedOnce ==
    /\ (pc = "main_loop" /\ phase = "raised" /\ IsRateLimited(exc[1])) =>
          /\ rate_limited_queue # <<>>
          /\ rate_limited_queue[Len(rate_limited_queue)].username = username
          /\ slept = <<"backoff", BackoffSleep(exc[1])>>
    /\ \A k \in 1..Len(rate_limited_queue) :
          LET u == rate_limited_queue[k].username
          IN  /\ \A m \in 1..Len(rate_limited_queue) :
                    rate_limited_queue[m].username = u => m = k
              /\ pc \in {"main_loop", "main_run"} =>
                    attempts[u] = 1 /\ Recorded(u) = 0
              /\ pc \in {"retry_loop", "retry_run"} =>
                    /\ attempts[u] = (IF k < i \/ (k = i /\ pc = "retry_run") THEN 2 ELSE 1)
                    /\ Recorded(u) = (IF k < i THEN 1 ELSE 0)
              /\ pc \in {"summary", "done"} =>
                    attempts[u] = 2 /\ Recorded(u) = 1
    /\ \A u \in DOMAIN attempts : u \notin Queued => attempts[u] <= 1
    /\ pc \in {"retry_loop", "retry_run"} =>
          \A k \in Attemptable : attempts[accounts[k].username] >= 1

\* The worker finished; the first account of its share was rate-limited in the
\* main pass, the second was attempted, and then the first was retried once
C3_Witness ==
    /\ pc = "done"
    /\ Len(accounts) = 2
    /\ Attemptable = {1, 2}
    /\ rate_limited_queue = <<accounts[1]>>
    /\ attempts[accounts[1].username] = 2
    /\ attempts[accounts[2].username] = 1
    /\ Recorded(accounts[1].username) = 1

\* A step of the retry pass: the queue and the backoff count stay as they are,
\* a rate-limited retry is recorded as a failure
RetryStepHasNoRecovery ==
    pc \in {"retry_loop", "retry_run"} =>
          /\ rate_limited_queue' = rate_limited_queue
          /\ backoffs' = backoffs
          /\ slept' # slept => slept' = DelaySleep
          /\ (pc = "retry_run" /\ phase = "raised" /\ IsRateLimited(exc[1])) =>
                /\ fail_list' = Append(fail_list, username)
                /\ success_list' = success_list
                /\ pc' = "retry_loop"
                /\ i' = i + 1

\* C7: the retry pass has no rate-limit recovery: an account rate-limited again
\* in its retry goes to the fail list, is not queued again and causes no backoff
\* sleep; the retry queue is never extended during the retry pass.
C7_NoRecoveryInRetryPass == [][RetryStepHasNoRecovery]_vars

\* The account retried last was rate-limited again and is in the fail list
C7_Witness ==
    /\ pc = "retry_loop"
    /\ i > 1
    /\ phase = "raised"
    /\ IsRateLimited(exc[1])
    /\ fail_list # <<>>
    /\ fail_list[Len(fail_list)] = username
    /\ rate_limited_queue[i - 1].username = username

\* A step taken with "SKIP" as the reply text, or one that produces it
SkipStepAbandonsTopic ==
    (reply_text = SKIP \/ reply_text' = SKIP) =>
          /\ used_topics' = used_topics
          /\ used_phrases' = used_phrases
          /\ replied_accounts' = replied_accounts
          /\ post_call' = <<>>
          /\ reply_result' = <<>>
          /\ reply_text' \in {SKIP, NoText}
          /\ phase' \notin {"select", "generate", "post"}
          /\ reply_text' = SKIP =>
                /\ phase' \in {"finally", "returned"}
                /\ topic' = topic
                /\ tried_ids' = tried_ids
                /\ candidate' = candidate
                /\ attempt' = attempt

\* C8: when the generator returns "SKIP" for the selected topic, execute_reply
\* makes no create-reply call, takes no phrase from the pool, selects no other
\* topic, leaves used_topics and used_phrases unchanged and returns no record.
C8_SkipAbandonsTopic == [][SkipStepAbandonsTopic]_vars

\* execute_reply returned after a "SKIP" for a topic it had selected
C8_Witness ==
    /\ reply_text = SKIP
    /\ phase = "returned"
    /\ topic # <<>>
    /\ reply_result = <<>>

\* C9: when an earlier account of the run replied to a topic and a later account
\* selects from a candidate list holding that topic only, the later account sees
\* the topic in used_topics and ends with no topic, no post and no reply.
C9_SecondAccountFindsNoTarget ==
    (/\ pc \in {"main_run", "retry_run"}
     /\ Len(cached_candidates) = 1
     /\ cached_candidates[1].id \in RepliedTopics) =>
        /\ cached_candidates[1].id \in used_topics
        /\ topic = <<>>
        /\ post_call = <<>>
        /\ reply_result = <<>>
        /\ phase \notin {"generate", "post"}
        /\ phase = "returned" => tried_ids = {cached_candidates[1].id} /\ candidate = <<>>

\* The second account drew the only candidate, the topic of the first account's
\* record, and its execute_reply returned without a topic
C9_Witness ==
    /\ pc \in {"main_run", "retry_run"}
    /\ Len(replied_accounts) = 1
    /\ replied_accounts[1].username # username
    /\ cached_candidates = <<Candidate(replied_accounts[1].topic_id)>>
    /\ tried_ids = {replied_accounts[1].topic_id}
    /\ phase = "returned"
    /\ topic = <<>>
    /\ reply_result = <<>>

\* The reply texts of the records made so far in this worker run
RepliedTexts == {replied_accounts[k].reply_text : k \in 1..Len(replied_accounts)}

\* C11: a reply text taken from the phrase pool differs from the text of every
\* reply record of the worker run as long as a pool phrase is left that no
\* record carries; a text of the primary generator is posted unchecked, and
\* the pool is reused once all its phrases are taken.
C11_PoolPhraseUnusedWhileAnyLeft ==
    (phase = "post" /\ ~is_ai) =>
        /\ reply_text \in Range(REPLY_POOL)
        /\ RepliedTexts \subseteq used_phrases
        /\ Range(REPLY_POOL) \ RepliedTexts # {} => reply_text \notin RepliedTexts

\* An earlier account's record carries a pool phrase, and the account about to
\* post drew another phrase from the pool
C11_Witness ==
    /\ phase = "post"
    /\ ~is_ai
    /\ Len(replied_accounts) = 1
    /\ replied_accounts[1].reply_text \in Range(REPLY_POOL)
    /\ reply_text \in Range(REPLY_POOL) \ RepliedTexts

\* C11 as stated: no two reply records of a worker run carry the same text
C11_NoTwoRecordsShareText ==
    \A k, l \in 1..Len(replied_accounts) :
        k # l => replied_accounts[k].reply_text # replied_accounts[l].reply_text

\* A step of an account's run while its login has not succeeded
FailedLoginStep ==
    /\ (phase = "login" /\ ~login_success') =>
          /\ phase' = "finally"
          /\ reply_result' = <<>>
          /\ UNCHANGED <<sharedVars, replyVars, loopVars>>
    /\ (phase = "finally" /\ ~login_success) =>
          /\ phase' \in {"returned", "raised"}
          /\ reply_result' = <<>>
          /\ UNCHANGED <<sharedVars, replyVars, loopVars>>
    /\ (phase = "returned" /\ ~login_success /\ pc \in {"main_run", "retry_run"}) =>
          /\ fail_list' = Append(fail_list, username)
          /\ success_list' = success_list
          /\ replied_accounts' = replied_accounts
          /\ UNCHANGED <<sharedVars, rate_limited_queue>>

\* C12: when login returns false or signals the rate limit, the account's run
\* goes straight to its clean-up: no browse step, no bookmark reading, no
\* notification and no reply attempt; after a false login login_success is
\* false and the account is appended to the fail list.
C12_FailedLoginSkipsAllPhases == [][FailedLoginStep]_vars

\* The account run last returned from a false login and is the last entry of
\* the fail list
C12_Witness ==
    /\ pc \in {"main_loop", "retry_loop"}
    /\ phase = "returned"
    /\ ~login_success
    /\ exc = <<>>
    /\ fail_list # <<>>
    /\ fail_list[Len(fail_list)] = username
    /\ Count(success_list, username) = 0

\* The reply attempt was entered: execute_reply went past its schedule check
ReplyEntered == reply_today = <<TRUE>>

\* A step of run() seen from the gates of the reply phase
ReplyGateStep ==
    /\ (phase = "browse" /\ phase' = "finally") => reply_today' = <<>>
    /\ (phase = "notify" /\ exc' = <<>>) => (phase' = "reply" <=> REPLY_ENABLED)
    /\ (phase = "notify" /\ exc' # <<>>) => phase' = "finally"
    /\ phase = "reply" =>
          /\ reply_today' # <<>>
          /\ ~ReplyEntered' => phase' = "finally" /\ UNCHANGED <<stored_csrf, sharedVars>>
    /\ reply_today' # <<>> => login_success' /\ REPLY_ENABLED /\ exc' = <<>>
    /\ (phase' \in {"select", "generate", "post"} \/ post_call' # <<>>) => ReplyEntered'
    /\ reply_today' # reply_today => (phase = "reply" \/ reply_today' = <<>>)

C14_LaterPhasesSurviveFailures ==
    (pc \in {"main_run", "retry_run"} /\ login_success) =>
        /\ exc = <<>>
        /\ phase # "raised"
        /\ (phase = "returned" /\ REPLY_ENABLED) => reply_today # <<>>

\* C15: an account whose login succeeded ends in the success list whatever
\* happens in the later phases: once its run is recorded it is the last entry
\* of success_list and the fail list does not hold it.
C15_LoggedInAccountSucceeds ==
    (pc \in {"main_loop", "retry_loop", "summary", "done"} /\ login_success) =>
        /\ success_list # <<>>
        /\ success_list[Len(success_list)] = username
        /\ Count(fail_list, username) = 0

\* The calls of the schedule predicates made so far
Calls == sc_prev \o sc_last

Distinct(s) == \A a, b \in 1..Len(s) : a # b => s[a] # s[b]

\* C16: the active days of a username in a week are distinct weekday indices
\* within 0..6, exactly 2 of them for replies and 1, 2 or 3 for the bookmark
\* extras, and two computations for the same username and week give the same
\* days whichever process makes them.
C16_ActiveDaysWellFormed ==
    /\ \A k \in 1..Len(Calls) :
          /\ Distinct(Calls[k].days)
          /\ Range(Calls[k].days) \subseteq 0..6
          /\ Calls[k].fn = "reply" => Len(Calls[k].days) = 2
          /\ Calls[k].fn = "bookmark" => Len(Calls[k].days) \in 1..3
    /\ Len(Calls) = 2 =>
          ((Calls[1].fn = Calls[2].fn /\ WeekNumber(Calls[1].now) = WeekNumber(Calls[2].now))
              => Calls[1].days = Calls[2].days)

\* The reply predicate was asked twice in one week, at different hours
C16_Witness ==
    /\ Len(Calls) = 2
    /\ Calls[1].fn = "reply"
    /\ Calls[2].fn = "reply"
    /\ Calls[1].now # Calls[2].now
    /\ WeekNumber(Calls[1].now) = WeekNumber(Calls[2].now)
    /\ Calls[1].days = Calls[2].days
    /\ Len(Calls[1].days) = 2

\* C17: the slot assigned to an account depends on its username alone:
\* whenever a schedule predicate gets as far as the slot, in whatever week,
\* the reply predicate and the bookmark predicate find the same slot.
C17_AssignedSlotOfUsername ==
    \A k, l \in 1..Len(Calls) :
        (Calls[k].assigned # <<>> /\ Calls[l].assigned # <<>>) =>
            /\ Calls[k].assigned = Calls[l].assigned
            /\ Calls[k].assigned[1] \in {"morning", "evening"}

\* The reply predicate and the bookmark predicate both got as far as the slot
\* of the account, in different weeks
C17_Witness ==
    /\ Len(Calls) = 2
    /\ Calls[1].fn = "reply"
    /\ Calls[2].fn = "bookmark"
    /\ WeekNumber(Calls[1].now) # WeekNumber(Calls[2].now)
    /\ Calls[1].assigned # <<>>
    /\ Calls[1].assigned = Calls[2].assigned

\* The slot of an hour: morning when the UTC hour is below 10
SlotOfHour(now) == IF now % 24 < 10 THEN "morning" ELSE "evening"

\* The weekday in Beijing, eight hours ahead of UTC
BeijingWeekday(now) == ((now + 8) \div 24) % 7

\* C18: should_reply_today and should_read_bookmarks_today return true exactly
\* when the weekday in Beijing is one of the account's active days of the
\* current ISO week and the current slot, morning when the UTC hour is below
\* 10 and evening otherwise, is the slot assigned to the account.
C18_PredicateIffDayAndSlot ==
    \A k \in 1..Len(Calls) :
        LET call == Calls[k]
            week == 1 + ((call.now + 8) \div 168)
            days == IF call.fn = "reply" THEN GetActiveDays(sc_username, week, 0)
                    ELSE BookmarkDays(sc_username, week, 0)
        IN  /\ call.days = days
            /\ call.result <=> (/\ BeijingWeekday(call.now) \in Range(days)
                                /\ SlotOfHour(call.now) = GetReplyRun(sc_username))

\* On an active day the reply predicate returned true in the account's slot
\* and the bookmark predicate returned false in the other slot
C18_Witness ==
    /\ Len(Calls) = 2
    /\ Calls[1].fn = "reply"
    /\ Calls[1].result
    /\ Calls[2].fn = "bookmark"
    /\ ~Calls[2].result
    /\ BeijingWeekday(Calls[2].now) \in Range(Calls[2].days)

\* The calendar day in Beijing of an hour of the clock
BeijingDay(now) == (now + 8) \div 24

\* C19: over the scheduled runs an account posts at most one reply per
\* calendar day and replies on at most two days of a week.
C19_OneReplyPerDayTwoDaysPerWeek ==
    /\ \A a, b \in 1..Len(cr_replies) :
          a # b => BeijingDay(cr_replies[a]) # BeijingDay(cr_replies[b])
    /\ \A w \in 1..(MaxWeeks + 1) :
          Cardinality({BeijingDay(cr_replies[a]) :
                          a \in {b \in 1..Len(cr_replies) : WeekNumber(cr_replies[b]) = w}}) <= 2

\* C20: a worker writes its result file once, when the main pass and the
\* retry pass are over; the file is named by the job index, its total is the
\* size of the worker's share, its lists are the final lists, and every reply
\* record in it belongs to a username of its success list.
C20_ResultFileIsFinal ==
    /\ results_file # <<>> <=> pc = "done"
    /\ Len(results_file) <= 1
    /\ pc = "done" =>
          LET r == results_file[1]
          IN  /\ r.name = <<"r", "e", "s", "u", "l", "t", "s", "_", "j", "o", "b", "_">>
                              \o Str(JOB_INDEX) \o <<".", "j", "s", "o", "n">>
              /\ r.job_index = JOB_INDEX
              /\ r.total = Len(accounts)
              /\ r.total = Cardinality({k \in 0..(Len(all_accounts) - 1) :
                                           k % JOB_TOTAL = JOB_INDEX})
              /\ r.success = success_list
              /\ r.fail = fail_list
              /\ r.replied_accounts = replied_accounts
              /\ Len(r.success) + Len(r.fail) = r.total
              /\ i = Len(rate_limited_queue) + 1
              /\ \A k \in 1..Len(rate_limited_queue) :
                    attempts[rate_limited_queue[k].username] = 2
              /\ \A k \in 1..Len(r.replied_accounts) :
                    r.replied_accounts[k].username \in Range(r.success)

\* The file of a worker with two accounts: one was rate-limited, retried and
\* replied, the other failed
C20_Witness ==
    /\ pc = "done"
    /\ results_file[1].total = 2
    /\ Len(rate_limited_queue) = 1
    /\ Len(results_file[1].replied_accounts) = 1
    /\ results_file[1].replied_accounts[1].username = rate_limited_queue[1].username
    /\ Len(results_file[1].fail) = 1

\* A step of run() seen from read_from_bookmarks
BookmarkStep ==
    /\ phase' = "bookmarks" =>
          /\ phase = "browse"
          /\ bookmark_today' = <<TRUE>>
          /\ login_success
          /\ BROWSE_ENABLED
          /\ username' = username
    /\ (phase = "browse" /\ bookmark_today' # <<TRUE>>) => phase' \in {"notify", "finally"}
    /\ phase = "bookmarks" => bookmark_today = <<TRUE>> /\ phase' = "notify"

\* C21: read_from_bookmarks is executed for an account only in a run in which
\* should_read_bookmarks_today(username) returned true.
C21_BookmarksOnlyWhenScheduled == [][BookmarkStep]_vars

\* read_from_bookmarks is running for the account of a retry
C21_Witness ==
    /\ pc = "retry_run"
    /\ phase = "bookmarks"
    /\ bookmark_today = <<TRUE>>


\* Ids of the candidates execute_reply fetched
CachedIds == {cached_candidates[k].id : k \in 1..Len(cached_candidates)}

\* Candidates nobody of the run used and the account does not take part in
EligibleIds == CachedIds \ (used_topics \cup fo_participates)

\* The selection loop is over without a topic
GaveUp == phase \in {"finally", "returned"} /\ topic = <<>>

\* C22 as stated: used ids do not consume selection attempts; with an eligible
\* candidate and fewer than 3 candidates the account already replied to, the
\* reply phase selects a topic.
C22_UsedIdsConsumeNoAttempt ==
    (EligibleIds # {} /\ Cardinality(CachedIds \cap fo_participates) < SelectAttempts)
        => ~GaveUp

\* C22: used ids are discarded after the random choice and consume selection
\* attempts; with an eligible candidate and fewer than 3 candidates that are in
\* the used-target set or already replied to by the account, the reply phase
\* selects a topic.
C22_SelectsWhenFewerThanThreeDiscards ==
    (EligibleIds # {}
        /\ Cardinality(CachedIds \cap (used_topics \cup fo_participates)) < SelectAttempts)
        => ~GaveUp

C22_Witness ==
    /\ phase = "generate"
    /\ topic # <<>>
    /\ attempt = 2
    /\ tried_ids \cap used_topics # {}
    /\ tried_ids \cap fo_participates # {}
    /\ Cardinality(CachedIds \cap (used_topics \cup fo_participates)) = 2


\* C23: an account never posts a reply to a topic it already takes part in,
\* whatever the topic-detail fetch of the status check returned.
C23_NoReplyToOwnTopic ==
    post_call # <<>> => post_call[1].topic_id \notin fo_participates


\* One iteration of the selection loop, seen from outside: a draw of an
\* untried id within the first 3, and the exits without a topic
SelectionStep ==
    phase = "select" =>
        /\ candidate' # <<>> =>
            /\ candidate'[1].id \in CachedIds \ tried_ids
            /\ tried_ids' = tried_ids \cup {candidate'[1].id}
            /\ Cardinality(tried_ids') <= SelectAttempts
        /\ (candidate' = <<>>) = (CachedIds \subseteq tried_ids)
        /\ (phase' = "finally") =
               (candidate' = <<>> \/ (topic' = <<>> /\ Cardinality(tried_ids') = SelectAttempts))
        /\ phase' = "finally" =>
               topic' = <<>> /\ post_call' = <<>> /\ reply_result' = <<>> /\ exc' = <<>>
        /\ phase' \in {"select", "generate", "finally"}
        /\ UNCHANGED <<sharedVars, replied_accounts, reply_result, exc>>

\* C24: a reply phase makes at most 3 selection attempts, each on a candidate
\* id not tried before in the phase; after 3 discarded candidates, or as soon
\* as no untried candidate remains, it gives up with no reply and no error.
C24_AtMostThreeFreshAttempts == [][SelectionStep]_vars

C24_Witness ==
    /\ phase = "returned"
    /\ topic = <<>>
    /\ Cardinality(tried_ids) = SelectAttempts
    /\ CachedIds \ tried_ids # {}
    /\ reply_result = <<>>
    /\ exc = <<>>


\* The step is post_reply returning True
PostConfirmed == phase = "post" /\ post_call' # <<>> /\ post_call'[1].success

\* What a step may do to the reply record, the two used sets and the records
\* collected so far
ReplyRecordStep ==
    /\ PostConfirmed =>
        /\ used_topics' = used_topics \cup {post_call'[1].topic_id}
        /\ used_phrases' = used_phrases \cup {post_call'[1].text}
        /\ reply_result' = <<[username |-> username,
                              topic_id |-> post_call'[1].topic_id,
                              topic_title |-> topic[1].title,
                              reply_text |-> post_call'[1].text]>>
        /\ post_call'[1].topic_id = topic[1].id
        /\ post_call'[1].text = reply_text
    /\ ~PostConfirmed =>
        /\ UNCHANGED sharedVars
        /\ reply_result' \in {reply_result, <<>>}
        /\ (phase \in {"reply", "select", "generate", "post"} /\ phase' = "finally")
               => reply_result' = <<>>
    /\ Len(replied_accounts') >= Len(replied_accounts)
    /\ SubSeq(replied_accounts', 1, Len(replied_accounts)) = replied_accounts

\* C25: a reply record is created, and used_topics and used_phrases grow (by
\* exactly the posted topic id and the posted text), only when the create-reply
\* call is confirmed; every other exit of execute_reply leaves both sets alone
\* and returns None; records in replied_accounts are never changed or removed.
C25_RecordOnlyOnConfirmedPost == [][ReplyRecordStep]_vars

C25_Witness ==
    /\ pc \in {"main_run", "retry_run"}
    /\ phase = "finally"
    /\ post_call # <<>>
    /\ ~post_call[1].success
    /\ reply_result = <<>>
    /\ replied_accounts # <<>>
    /\ used_topics = {replied_accounts[1].topic_id}
    /\ used_phrases = {replied_accounts[1].reply_text}


\* C26: when the fallback pool is used and some pool phrase is not in
\* used_phrases, the chosen phrase is not in used_phrases; a used phrase is
\* chosen only when every phrase of the pool is used.
C26_FallbackPrefersUnusedPhrase ==
    (pc = "main_run" /\ phase = "post" /\ ~is_ai) =>
        /\ reply_text \in Range(REPLY_POOL)
        /\ reply_text \in used_phrases => Range(REPLY_POOL) \subseteq used_phrases

C26_Witness ==
    /\ pc = "main_run"
    /\ phase = "post"
    /\ ~is_ai
    /\ used_phrases # {}
    /\ reply_text \notin used_phrases
    /\ Cardinality(Range(REPLY_POOL) \ used_phrases) = 1


\* The rate-limit handler of the main pass and the start of the account after it
BackoffStallStep ==
    /\ (pc = "main_run" /\ phase = "raised" /\ IsRateLimited(exc[1])) =>
        /\ slept' = <<"backoff", BackoffSleep(exc[1])>>
        /\ attempts' = attempts
        /\ pc' = "main_loop"
        /\ i' = i + 1
        /\ rate_limited_queue' = Append(rate_limited_queue, accounts[i])
    /\ (pc = "main_loop" /\ pc' = "main_run" /\ i > 1 /\ rate_limited_queue # <<>>
            /\ rate_limited_queue[Len(rate_limited_queue)] = accounts[i - 1]) =>
        /\ slept # <<>>
        /\ slept[1] = "backoff"
        /\ slept' = slept

\* C27: the rate-limit backoff stalls the worker: from the signal to the end
\* of the computed sleep no other account attempt starts, and the next account
\* of the main pass starts right after the sleep, without the normal delay.
C27_BackoffStallsWorker == [][BackoffStallStep]_vars

C27_Witness ==
    /\ pc = "main_run"
    /\ phase = "login"
    /\ i = 2
    /\ rate_limited_queue = <<accounts[1]>>
    /\ slept # <<>>
    /\ slept[1] = "backoff"


\* Positions of the worker's list whose account has a username and a password
Runnable(k) == accounts[k].username # 0 /\ accounts[k].password # 0

\* The step starts an attempt of account a
StartsAttemptOf(a) ==
    /\ attempts' = [attempts EXCEPT ![a.username] = @ + 1]
    /\ username' = a.username
    /\ phase' \in {"login", "raised"}

\* Where attempts start: one at a time, the main pass down the worker's list,
\* the retry pass down the queue, after the main pass; the queue grows by the
\* account that was just rate-limited
AttemptOrderStep ==
    /\ (pc # "start" /\ attempts' # attempts) =>
        /\ pc \in {"main_loop", "retry_loop"}
        /\ phase \notin {"login", "browse", "bookmarks", "notify", "reply", "select",
                          "generate", "post", "finally"}
        /\ pc = "main_loop" =>
            /\ StartsAttemptOf(accounts[i])
            /\ \A k \in 1..Len(accounts) : Runnable(k) =>
                   attempts[accounts[k].username] = (IF k < i THEN 1 ELSE 0)
        /\ pc = "retry_loop" =>
            /\ StartsAttemptOf(rate_limited_queue[i])
            /\ \A k \in 1..Len(accounts) : Runnable(k) => attempts[accounts[k].username] >= 1
            /\ \A k \in 1..Len(rate_limited_queue) :
                   attempts[rate_limited_queue[k].username] = (IF k < i THEN 2 ELSE 1)
    /\ rate_limited_queue' # rate_limited_queue =>
        /\ pc = "main_run"
        /\ rate_limited_queue' = Append(rate_limited_queue, accounts[i])
        /\ \A k \in 1..Len(rate_limited_queue) :
               \E j \in 1..(i - 1) : accounts[j] = rate_limited_queue[k]

\* C28: within one worker, account attempts never overlap and follow the order
\* of the worker's list; every retry attempt comes after all main-pass
\* attempts, and retry attempts follow the order of the rate-limit signals.
C28_AttemptsInOrder == [][AttemptOrderStep]_vars

C28_Witness ==
    /\ pc = "retry_run"
    /\ phase = "login"
    /\ i = 2
    /\ Len(rate_limited_queue) = 2
    /\ rate_limited_queue = accounts
    /\ username = accounts[2].username


\* The start-ups logged are one fan-out: each job index 0..JOB_TOTAL-1 once
OneFanOut ==
    /\ Len(launches) = JOB_TOTAL
    /\ \A j \in 0..(JOB_TOTAL - 1) : \E k \in 1..Len(launches) : launches[k].job_index = j

\* The start-ups whose share holds account a
WorkersOf(a) == {k \in 1..Len(launches) : a \in Range(launches[k].accounts)}

\* C29: the workers of one fan-out compute the same shuffle, so every roster
\* account is in the share of exactly one worker, although each worker reads
\* the date only after its own start-up delay.
C29_FanOutAgreesOnShuffle ==
    OneFanOut => \A a \in Range(all_accounts) : Cardinality(WorkersOf(a)) = 1


\* A rate-limit signal of login and the handler's sleep for it
DefaultWaitStep ==
    /\ (phase = "login" /\ exc' # <<>> /\ IsRateLimited(exc'[1])) =>
        exc'[1] = RateLimitedText \o <<":", "6", "0">>
    /\ (pc = "main_run" /\ phase = "raised" /\ IsRateLimited(exc[1])) =>
        /\ ParsedWait(exc[1]) = 60
        /\ slept' = <<"backoff", 90>>

\* C30: a rate-limit signal without a wait duration of its own gets the
\* suggested wait of 60 seconds, and the worker sleeps min(60 + 30, 2100) = 90.
C30_DefaultWaitSleepsNinety == [][DefaultWaitStep]_vars

C30_Witness ==
    /\ pc = "main_loop"
    /\ backoffs = 1
    /\ slept = <<"backoff", 90>>
    /\ rate_limited_queue = <<accounts[1]>>


\* The listed topics that became candidates
ListedAsCandidate ==
    {k \in 1..Len(ft_topics) :
        \E c \in 1..Len(ft_result[1]) : ft_result[1][c].id = ft_topics[k].id /\ ft_topics[k].id # 0}

\* C31: every candidate of _fetch_topic_candidates is not pinned, has neither
\* an original poster nor a last poster among the bot usernames, was created
\* at most 3 days ago, has at most 100 posts, is neither closed nor archived
\* and has an id.
C31_CandidatesPassEveryFilter ==
    ft_result # <<>> =>
        /\ \A c \in 1..Len(ft_result[1]) :
               \E k \in 1..Len(ft_topics) : ft_topics[k].id = ft_result[1][c].id
        /\ \A k \in ListedAsCandidate :
               LET t == ft_topics[k]
               IN  /\ ~t.pinned /\ ~t.pinned_globally
                   /\ t.op \notin BotUsernames(all_accounts)
                   /\ t.last_poster_username \notin BotUsernames(all_accounts)
                   /\ t.created_at.age <= AgeLimitDays * SecondsPerDay
                   /\ t.posts_count <= PostsLimit
                   /\ ~t.closed /\ ~t.archived


\* Positions of the log where the wrapped function was invoked, was left by
\* an exception, where the wrapper slept
InvokedAt == {j \in 1..Len(rd_log) : rd_log[j].event = "invoke"}

RaisedAt == {j \in InvokedAt : rd_log[j].outcome = "raises"}

SleptAt == {j \in 1..Len(rd_log) : rd_log[j].event = "sleep"}

\* C32: a wrapped function is invoked at most retries times per call, 3 by
\* default; the wrapper returns the result of the first invocation that does
\* not raise and invokes nothing after it; when every invocation raised it
\* returns None and propagates nothing.
C32_RetryAtMostThreeInvocations ==
    /\ rd_pc \in {"loop", "returned"}
    /\ Cardinality(InvokedAt) <= rd_params.retries
    /\ rd_params.retries = DefaultRetries => Cardinality(InvokedAt) <= 3
    /\ \A j \in InvokedAt \ RaisedAt :
        /\ j = Len(rd_log)
        /\ rd_pc = "returned"
        /\ rd_result = <<rd_log[j].outcome>>
    /\ (rd_pc = "returned" /\ InvokedAt = RaisedAt) =>
        /\ Cardinality(InvokedAt) = rd_params.retries
        /\ rd_result = <<"none">>
    /\ rd_pc = "loop" => rd_result = <<>>

C32_Witness ==
    /\ rd_pc = "returned"
    /\ rd_params.retries = DefaultRetries
    /\ Cardinality(RaisedAt) = 3
    /\ rd_result = <<"none">>

\* C33: the wrapper sleeps only between attempts, after a failed attempt that
\* is not the last one, and the sleep after attempt k is within 25% of
\* min(base_delay * 2^k, max_delay): 2.25 to 3.75 s, then 4.5 to 7.5 s, for
\* base 3 and cap 30.
C33_SleepBetweenAttemptsWithinJitter ==
    /\ \A j \in SleptAt :
        LET k == rd_log[j].attempt
            d == IF rd_params.base_delay * Pow(2, k) < rd_params.max_delay
                 THEN rd_params.base_delay * Pow(2, k) ELSE rd_params.max_delay
        IN  /\ j > 1
            /\ j - 1 \in RaisedAt
            /\ rd_log[j - 1].attempt = k
            /\ k < rd_params.retries - 1
            /\ 75 * d <= rd_log[j].outcome
            /\ rd_log[j].outcome <= 125 * d
            /\ (rd_params.base_delay = 3 /\ rd_params.max_delay = 30 /\ k = 0) =>
                   (225 <= rd_log[j].outcome /\ rd_log[j].outcome <= 375)
            /\ (rd_params.base_delay = 3 /\ rd_params.max_delay = 30 /\ k = 1) =>
                   (450 <= rd_log[j].outcome /\ rd_log[j].outcome <= 750)
    /\ \A j \in RaisedAt :
           rd_log[j].attempt < rd_params.retries - 1 => j + 1 \in SleptAt
    /\ rd_pc = "returned" => Len(rd_log) \notin SleptAt

C33_Witness ==
    /\ rd_pc = "returned"
    /\ rd_params = [retries |-> 3, base_delay |-> 3, backoff_factor |-> 2, max_delay |-> 30]
    /\ Cardinality(RaisedAt) = 3
    /\ Len(rd_log) = 5
    /\ rd_log[2].outcome = 225
    /\ rd_log[4].outcome = 750


\* Usernames of the reply records collected so far
RepliedUsernames == {replied_accounts[k].username : k \in 1..Len(replied_accounts)}

\* What a step may do about the reply of the account being processed
ReplyOncePerAccountStep ==
    \* one create-reply call per run of the browser, failed or not
    /\ post_call' # post_call /\ post_call' # <<>> =>
        /\ phase = "post"
        /\ post_call = <<>>
        /\ phase' = "finally"
    \* the attempt that enters the reply phase logged in, and a second attempt
    \* of an account is a retry of a queued account
    /\ (phase # "reply" /\ phase' = "reply") =>
        /\ login_success
        /\ attempts[username] <= 2
        /\ attempts[username] = 2 =>
            /\ pc = "retry_run"
            /\ \E k \in 1..Len(rate_limited_queue) : rate_limited_queue[k].username = username
    \* the attempt that is queued for a retry never got to the reply phase
    /\ rate_limited_queue' # rate_limited_queue =>
        /\ ~login_success
        /\ reply_today = <<>>
        /\ post_call = <<>>
        /\ reply_result = <<>>
        /\ attempts[username] = 1
    \* one record per account
    /\ replied_accounts' # replied_accounts =>
        /\ replied_accounts' = Append(replied_accounts, reply_result[1])
        /\ reply_result[1].username = username
        /\ username \notin RepliedUsernames

\* C34: in one worker run the create-reply call is made at most once per
\* account: a failed post is not retried, an account attempted twice reaches
\* the reply phase in at most one of its attempts, and each account has at
\* most one reply record.
C34_OneReplyCallPerAccount == [][ReplyOncePerAccountStep]_vars

C34_Witness ==
    /\ pc = "retry_run"
    /\ phase = "finally"
    /\ attempts[username] = 2
    /\ post_call # <<>>
    /\ ~post_call[1].success


\* Attempts and backoff sleeps of a run stay within their limits
WorkBounded ==
    /\ \A u \in DOMAIN attempts : attempts[u] <= 2
    /\ backoffs <= Len(accounts)
    /\ Len(rate_limited_queue) = backoffs

\* The retry pass never sleeps for a rate limit
RetryPassStep == pc \in {"retry_loop", "retry_run"} => backoffs' = backoffs

\* C35: provided every external call returns, a worker terminates by writing
\* its result file; each account is attempted at most twice, the rate-limit
\* backoff sleeps are at most as many as the accounts of the partition, and
\* none of them occurs in the retry pass.
C35_WorkerTerminatesWithResults ==
    /\ <>(pc = "done" /\ results_file # <<>>)
    /\ []WorkBounded
    /\ [][RetryPassStep]_vars

C35_Witness ==
    /\ pc = "done"
    /\ results_file # <<>>
    /\ Len(accounts) = 2
    /\ backoffs = 2
    /\ \A u \in DOMAIN attempts : attempts[u] = 2

----------------------------------------------------------------------------
(* C36 *)

\* The topic ids of the records of a worker
FanRepliedTopics(w) ==
    {fan_workers[w].replied_accounts[k].topic_id :
        k \in 1..Len(fan_workers[w].replied_accounts)}

\* The texts of the records of a worker
FanRepliedTexts(w) ==
    {fan_workers[w].replied_accounts[k].reply_text :
        k \in 1..Len(fan_workers[w].replied_accounts)}

\* The sets of a worker hold what its own records say and nothing else, and
\* no two of its records name the same topic
FanScoped ==
    \A w \in FanWorkers :
        /\ fan_workers[w].used_topics = FanRepliedTopics(w)
        /\ fan_workers[w].used_phrases = FanRepliedTexts(w)
        /\ Cardinality(FanRepliedTopics(w)) = Len(fan_workers[w].replied_accounts)

\* A step of one worker: a launch leaves it with empty sets, a reply goes to
\* a topic outside its own set, and the sets and records of every other
\* worker stay as they were
FanIsolationStep ==
    \A w \in FanWorkers :
        fan_workers'[w] # fan_workers[w] =>
            /\ \A v \in FanWorkers \ {w} : fan_workers'[v] = fan_workers[v]
            /\ fan_workers[w].pc = "off" =>
                  /\ fan_workers'[w].used_topics = {}
                  /\ fan_workers'[w].used_phrases = {}
            /\ Len(fan_workers'[w].replied_accounts) > Len(fan_workers[w].replied_accounts) =>
                  \E t \in Topics \ fan_workers[w].used_topics :
                      /\ fan_workers'[w].used_topics = fan_workers[w].used_topics \cup {t}
                      /\ fan_workers'[w].replied_accounts[Len(fan_workers'[w].replied_accounts)].topic_id = t

\* C36: the anti-collision sets belong to one worker: each worker starts with
\* empty used-topic and used-phrase sets, a reply posted by one worker leaves
\* the sets and the selection of every other worker unchanged, and the
\* records of each worker never name a topic twice (while two workers may
\* both post to the same topic)
C36_AntiCollisionScopedToWorker == []FanScoped /\ [][FanIsolationStep]_vars

\* Both workers of the fan-out have posted to the same topic, the second one
\* after the first
C36_Witness ==
    /\ \A w \in FanWorkers : fan_workers[w].pc # "off"
    /\ FanRepliedTopics(1) \cap FanRepliedTopics(2) # {}

----------------------------------------------------------------------------
(* C37 *)

\* A step of the reply phase that fetches the token, and a step that makes
\* the create-reply call
CsrfStep ==
    /\ (phase = "reply" /\ fresh_csrf' # fresh_csrf) =>
          /\ fresh_csrf = <<>>
          /\ fresh_csrf'[1] # 0 => csrf_token' = fresh_csrf'[1]
          /\ fresh_csrf'[1] = 0 => csrf_token' = stored_csrf
          /\ csrf_token' = 0 =>
                /\ phase' = "finally"
                /\ reply_result' = <<>>
                /\ candidate' = <<>> /\ topic' = <<>> /\ tried_ids' = {}
                /\ post_call' = <<>>
    /\ (post_call' # post_call /\ post_call' # <<>>) =>
          /\ fresh_csrf # <<>>
          /\ post_call'[1].csrf_token # 0
          /\ post_call'[1].csrf_token = csrf_token
          /\ fresh_csrf[1] # 0 => post_call'[1].csrf_token = fresh_csrf[1]

\* C37: the create-reply call always carries an anti-forgery token: the reply
\* phase takes the freshly fetched token, the token stored at login only when
\* the fresh fetch gave nothing, and with neither it ends without a record,
\* a selected topic or a post
C37_NoPostWithoutToken == [][CsrfStep]_vars

\* A create-reply call made with the token stored at login, the fresh fetch
\* having given nothing
C37_Witness ==
    /\ post_call # <<>>
    /\ fresh_csrf = <<0>>
    /\ post_call[1].csrf_token = 1

----------------------------------------------------------------------------
(* C38 *)

\* The end of a call of run(): out of the finally block and nowhere else,
\* with the three release calls made and the outcome that was pending
ReleaseStep ==
    (InRun /\ phase' \in {"returned", "raised"}) =>
        /\ phase = "finally"
        /\ released = <<>>
        /\ released' = ReleaseCalls
        /\ exc' = exc
        /\ phase' = (IF exc = <<>> THEN "returned" ELSE "raised")
        /\ login_success' = login_success
        /\ reply_result' = reply_result

\* C38: every call of run() ends through the finally block with page.close(),
\* browser.quit() and the orphan-process cleanup all made, whatever the exit
\* path (login failure, rate limit, early return, exception, completion), and
\* a failure of a release call leaves the outcome of the run as it was
C38_RunAlwaysReleasesBrowser == [][ReleaseStep]_vars

\* A run that ended on the rate-limit exception after the release calls
C38_Witness ==
    /\ phase = "raised"
    /\ exc # <<>> /\ IsRateLimited(exc[1])
    /\ released = ReleaseCalls

====
